---- MODULE Spec2Model ----
(***************************************************************************)
(* The execution and supervision engine of claude-plus: the run loop of    *)
(* LongRunningAgent (main.py), the task store (task_manager.py), the       *)
(* TaskOrchestrator (orchestrator.py), the PostWorkValidator               *)
(* (validator.py), the WorkerProcess (worker.py) and the cost ledger       *)
(* (cost_tracker.py).                                                       *)
(*                                                                         *)
(* tasks.json exists in three copies that the engine keeps apart: the      *)
(* file in the working tree (disk), the TaskManager's list (mem) and the   *)
(* version committed at HEAD (head).  The agents (worker, validator,       *)
(* orchestrator, supervisor) are the environment: their outcomes are       *)
(* nondeterministic choices.                                               *)
(*                                                                         *)
(* main.py is written against a Supervisor with cancel(), a decision       *)
(* "orchestrate" and results that carry cost_usd, and against a            *)
(* ValidationResult that carries cost_usd.  supervisor.py and validator.py *)
(* as found in the repository do not define these members; they are        *)
(* modelled from the specification (SupervisorDecisions,                   *)
(* SupervisorResults, SupervisorCancel, ValidatorCost).                    *)
(***************************************************************************)
EXTENDS Integers, Sequences, FiniteSets, TLC

\* ---------------------------------------------------------------- bounds
MaxStarts == 2    \* worker processes started, over all runs
MaxResponseLen == 4    \* tokens in a supervisor response
MaxCalls == 2    \* calls of graceful_shutdown on one WorkerProcess
MaxLogLen == 3    \* pieces of text in a worker's log file
MaxTasks == 2    \* tasks in a task list that is saved and loaded
MaxChecks == 2    \* supervisor checks started for one task

\* ------------------------------------------------------ program constants
MAX_FAILED_RETRIES == 3
max_orchestration_attempts == 3
max_review_attempts == 3
SIGINT_WAIT_TICKS == 30
TERMINATE_WAIT_TICKS == 50    \* polls of 0.1 s after the SIGINT

\* Task ids as parse_task_id returns them: "1.1" is <<1, 1>>.
TaskIds == {<<1>>, <<2>>, <<2, 1>>}
\* The ids of the tasks.json the workspace is initialised with: "2" and
\* "2.1", which leaves "1" for a task the orchestrator adds.
InitialIds == {<<2>>, <<2, 1>>}

\* task is unbound / current_worker is None; commit_before_task is None.
NoTask == <<>>
NoCommit == <<>>

PENDING == "pending"
IN_PROGRESS == "in_progress"
COMPLETED == "completed"
FAILED == "failed"
Statuses == {PENDING, IN_PROGRESS, COMPLETED, FAILED}

\* CostSource values of the records; "worker_estimated" stands for a worker
\* record written with estimated=True.
CostSources == {"worker", "worker_estimated", "worker_cleanup", "supervisor",
                "orchestrator", "validator"}

\* ------------------------------------------------------------- task store

\* Task as the dataclass creates it from {"id", "description"}.  session_id
\* is 0 for None and 1 for a "worker_<pid>".
NewTask == [status |-> PENDING, session_id |-> 0,
            error_message |-> "none", notes |-> "none"]

\* Python's comparison of the integer lists parse_task_id returns.
RECURSIVE KeyLess(_, _)
KeyLess(a, b) ==
    IF a = <<>> THEN b # <<>>
    ELSE IF b = <<>> THEN FALSE
    ELSE IF Head(a) # Head(b) THEN Head(a) < Head(b)
    ELSE KeyLess(Tail(a), Tail(b))

\* A selection that ignores the status.
EligibleAny(tasks) == DOMAIN tasks

Eligible(tasks) ==
    {t \in DOMAIN tasks : tasks[t].status \in {PENDING, IN_PROGRESS}}

get_next_task(tasks) ==
    IF Eligible(tasks) = {} THEN NoTask
    ELSE CHOOSE t \in Eligible(tasks) :
             \A u \in Eligible(tasks) : u = t \/ KeyLess(t, u)

\* A check that never finds a failed task.
has_failed_tasks_never(tasks) == FALSE

has_failed_tasks(tasks) == \E t \in DOMAIN tasks : tasks[t].status = FAILED

\* get_task_by_id finds nothing for an id that is not in the list; every
\* transition is then a no-op apart from nothing being saved.
mark_in_progress(tasks, id, session_id) ==
    IF id \in DOMAIN tasks
    THEN [tasks EXCEPT ![id].status = IN_PROGRESS, ![id].session_id = session_id]
    ELSE tasks

mark_completed(tasks, id) ==
    IF id \in DOMAIN tasks
    THEN [tasks EXCEPT ![id].status = COMPLETED]
    ELSE tasks

mark_failed(tasks, id, err) ==
    IF id \in DOMAIN tasks
    THEN [tasks EXCEPT ![id].status = FAILED, ![id].error_message = err]
    ELSE tasks

\* A notes update that is lost.
update_notes_dropped(tasks, id, notes) == tasks

update_notes(tasks, id, notes) ==
    IF id \in DOMAIN tasks
    THEN [tasks EXCEPT ![id].notes = notes]
    ELSE tasks

clear_notes(tasks, id) == update_notes(tasks, id, "none")

\* What save_tasks leaves on disk after a transition on id: the whole list
\* is rewritten, but only when get_task_by_id found the task.
Saved(tasks, id, old) == IF id \in DOMAIN tasks THEN tasks ELSE old

\* ------------------------------------------------------------------ state
VARIABLES
    disk,                \* tasks.json in the working tree
    mem,                 \* TaskManager.tasks of the running engine
    head,                \* tasks.json as committed at HEAD
    dirty,               \* the working tree has uncommitted changes in other files
    pc,                  \* where the main thread of the engine is
    starts,              \* worker processes started so far
    task,                \* the run loop's local `task` (an id, or NoTask)
    current_worker,      \* the run loop's local `current_worker` is not None
    commit_before_task,  \* <<tasks.json at the snapshot commit>>, or NoCommit
    failed_task_retries,
    worker,              \* "none", "alive" or "exited": the worker process
    worker_log,          \* what read_log finds in the worker's log file
    sv_threads,          \* supervisor threads whose analysis is still running
    supervisor_queue,    \* the current task's result queue
    orch_backup,         \* orchestrate's local `backup`: <<contents>> while it runs
    orch_edited,         \* the orchestrator agent has rewritten tasks.json
    orch_result,         \* the OrchestratorResult just returned: [caller, success]
    unrecorded,          \* by source: Result events with cost > 0 produced
                         \* since the run loop last started a task, minus
                         \* the ledger records appended since
    sv_call,             \* how the supervisor's agent call ended
    response,            \* the text the supervisor's agent answered
    sv_decision,         \* the decision analyze returned ("none": not yet)
    sv_dispatch,         \* what the run loop did with that decision
    gs_pc,               \* where a graceful_shutdown call is
    gs_session,          \* the worker's log holds a session id
    gs_worker,           \* "alive" or "dead": the worker process
    gs_signals,          \* the signals sent to the worker's process group
    gs_ticks,            \* iterations of the wait loop done
    gs_cleanup,          \* "none", "running" or "exited": the cleanup child
    gs_result,           \* the CleanupResult to return
    gs_calls,            \* calls of graceful_shutdown begun on this worker
    gs_first,            \* <<what the first call returned>>
    log_file,            \* the worker's log file: NoFile, or its content
    last_log_position,   \* WorkerProcess._last_log_position
    new_events,          \* what read_new_events returned last
    log_reads,           \* read_new_events calls since the last write (2: more)
    log_shown,           \* events returned by all read_new_events calls so
                         \* far, counted up to MaxLogLen + 1
    st_tasks,            \* TaskManager.tasks of the manager that saves
    st_file,             \* the tasks file: NoTasksFile, or its JSON document
    st_loaded,           \* what _load_tasks made of the file
    st_pc,               \* "made", "saved", "edited", "loaded" or "asked"
    next_task,           \* <<the Task get_next_task returned>>, <<>> for None
    v_pc,                \* where one task's run is, from snapshot to verdict
    v_tree,              \* the files git status --porcelain would list
    v_commit,            \* commit_before_task: <<hash>>, or NoCommit for None
    v_worker,            \* "none", "alive" or "exited"
    v_status,            \* the task's status in tasks.json
    v_query_failed,      \* git status --porcelain returned non-zero
    v_agent_tree,        \* <<v_tree when the Validator's agent returned>>
    v_result,            \* the ValidationResult: [returned, success, errors]
    sl_pc,               \* where the run loop is in a task's iteration
    sl_task,             \* the number of the task the loop is at (0: none yet)
    sl_commit,           \* the task commit_before_task was recorded for
    sl_worker,           \* "none", "alive" or "exited"
    sl_check_count,      \* the loop's check_count
    sl_thread,           \* the loop's supervisor_thread: its check, 0 for None
    sl_threads,          \* run_supervisor threads that have not put a result
    sl_queue,            \* the loop's supervisor_queue
    sl_consumed,         \* the checks whose results the drain has taken
    sl_saved,            \* the task whose finalization was last completed
    or_pc,               \* where an orchestrate call is
    or_file,             \* tasks.json as the call finds and leaves it
    or_backup,           \* orchestrate's local `backup`: <<contents>>
    or_backups,          \* _backup_tasks calls made
    or_attempts,         \* orchestration agent invocations made
    or_reviews,          \* review agent invocations made
    or_done,             \* an orchestration output held ORCHESTRATION_DONE
    or_passed,           \* a review output held REVIEW_PASSED
    or_committed,        \* _commit_tasks was called
    or_result,           \* the OrchestratorResult: [returned, success]
    tm_pc,               \* where a terminate call is
    tm_graceful,         \* the call's `graceful` argument
    tm_entry,            \* the worker process when terminate was called
    tm_worker,           \* "alive" or "exited": the worker process
    tm_signals,          \* the signals sent to the worker's process group
    tm_ticks,            \* iterations of the wait loop done
    rd_pc,               \* "ready", or which reader has gone over the output
    rd_lines,            \* the lines of agent output, by kind
    rd_result,           \* what the reader made of them: [events, is_error]
    rs_pc,               \* where the run loop is: "loop", "working", "exited", "stopped"
    rs_status,           \* the status of each task of the list
    rs_task,             \* the run loop's local `task` (0: none)
    rs_retries,          \* failed_task_retries
    rs_processed,        \* tasks_processed, counted up to MaxStarts
    rs_max_tasks         \* the max_tasks argument of run (0: None)

vars == <<disk, mem, head, dirty, pc, starts, task, current_worker,
          commit_before_task, failed_task_retries, worker, worker_log,
          sv_threads, supervisor_queue,
          orch_backup, orch_edited, orch_result, unrecorded,
          sv_call, response, sv_decision, sv_dispatch,
          gs_pc, gs_session, gs_worker, gs_signals, gs_ticks, gs_cleanup,
          gs_result, gs_calls, gs_first,
          log_file, last_log_position, new_events, log_reads, log_shown,
          st_tasks, st_file, st_loaded, st_pc, next_task,
          v_pc, v_tree, v_commit, v_worker, v_status, v_query_failed,
          v_agent_tree, v_result,
          sl_pc, sl_task, sl_commit, sl_worker, sl_check_count, sl_thread,
          sl_threads, sl_queue, sl_consumed, sl_saved,
          or_pc, or_file, or_backup, or_backups, or_attempts, or_reviews, or_done, or_passed, or_committed, or_result,
          tm_pc, tm_graceful, tm_entry, tm_worker, tm_signals, tm_ticks,
          rd_pc, rd_lines, rd_result,
          rs_pc, rs_status, rs_task, rs_retries, rs_processed, rs_max_tasks>>

taskVars == <<disk, mem, head, dirty>>
workerVars == <<worker, worker_log>>
svVars == <<sv_threads, supervisor_queue>>
orchVars == <<orch_backup, orch_edited, orch_result>>
localVars == <<task, current_worker, commit_before_task, failed_task_retries>>
parseVars == <<sv_call, response, sv_decision, sv_dispatch>>
gsVars == <<gs_pc, gs_session, gs_worker, gs_signals, gs_ticks, gs_cleanup,
            gs_result, gs_calls, gs_first>>
logVars == <<log_file, last_log_position, new_events, log_reads, log_shown>>
engineVars == <<taskVars, pc, starts, localVars, workerVars, svVars, orchVars,
                unrecorded>>

\* The variables each specification leaves alone.
storeVars == <<st_tasks, st_file, st_loaded, st_pc, next_task>>
loopVars == <<sl_pc, sl_task, sl_commit, sl_worker, sl_check_count, sl_thread,
              sl_threads, sl_queue, sl_consumed, sl_saved>>
validationVars == <<v_pc, v_tree, v_commit, v_worker, v_status,
                    v_query_failed, v_agent_tree, v_result>>
callVars == <<or_pc, or_file, or_backup, or_backups, or_attempts, or_reviews, or_done, or_passed, or_committed, or_result>>
terminateVars == <<tm_pc, tm_graceful, tm_entry, tm_worker, tm_signals, tm_ticks>>
readerVars == <<rd_pc, rd_lines, rd_result>>
restartVars == <<rs_pc, rs_status, rs_task, rs_retries, rs_processed, rs_max_tasks>>
besideEngine == <<parseVars, gsVars, logVars, storeVars, validationVars,
    loopVars, callVars, terminateVars, readerVars, restartVars>>
besideAnalysis == <<engineVars, gsVars, logVars, storeVars, validationVars,
    loopVars, callVars, terminateVars, readerVars, restartVars>>
besideShutdown == <<engineVars, parseVars, logVars, storeVars,
    validationVars, loopVars, callVars, terminateVars, readerVars,
    restartVars>>
besideLog == <<engineVars, parseVars, gsVars, storeVars, validationVars,
    loopVars, callVars, terminateVars, readerVars, restartVars>>
besideStore == <<engineVars, parseVars, gsVars, logVars, validationVars,
    loopVars, callVars, terminateVars, readerVars, restartVars>>
besideValidation == <<engineVars, parseVars, gsVars, logVars, storeVars,
    loopVars, callVars, terminateVars, readerVars, restartVars>>
besideLoop == <<engineVars, parseVars, gsVars, logVars, storeVars,
    validationVars, callVars, terminateVars, readerVars, restartVars>>
besideCall == <<engineVars, parseVars, gsVars, logVars, storeVars,
    validationVars, loopVars, terminateVars, readerVars, restartVars>>
besideTerminate == <<engineVars, parseVars, gsVars, logVars, storeVars,
    validationVars, loopVars, callVars, readerVars, restartVars>>
besideReader == <<engineVars, parseVars, gsVars, logVars, storeVars,
    validationVars, loopVars, callVars, terminateVars, restartVars>>
besideRestart == <<engineVars, parseVars, gsVars, logVars, storeVars,
    validationVars, loopVars, callVars, terminateVars, readerVars>>

\* WorkerLog: the Result event (none, ok, blocked or error) with its cost, and whether
\* assistant events with usage are in the log.
NoLog == [result |-> "none", cost |-> 0, usage |-> FALSE]
NoResult == [caller |-> "none", success |-> TRUE]
ZeroCosts == [s \in CostSources |-> 0]

\* CostTracker.add: a record is appended only for cost_usd > 0.
CostAdd(l, source, cost) ==
    IF cost <= 0 THEN l ELSE [l EXCEPT ![source] = @ - 1]

\* An agent invocation ends with a Result event that carries this cost.
Emit(l, source, cost) ==
    IF cost <= 0 THEN l ELSE [l EXCEPT ![source] = @ + 1]

\* CleanupResult() as the dataclass creates it.
CleanupResult == [success |-> FALSE, handover_summary |-> FALSE,
                  cleanup_done |-> FALSE, cost_usd |-> 0]

\* No supervisor call is being looked at.
NoAnalysis ==
    /\ sv_call = "none"
    /\ response = <<>>
    /\ sv_decision = "none"
    /\ sv_dispatch = "none"

\* No graceful_shutdown call is being looked at.
NoShutdownCall ==
    /\ gs_pc = "none"
    /\ gs_session = FALSE
    /\ gs_worker = "dead"
    /\ gs_signals = <<>>
    /\ gs_ticks = 0
    /\ gs_cleanup = "none"
    /\ gs_result = CleanupResult
    /\ gs_calls = 0
    /\ gs_first = <<>>

\* The worker has no log file yet and nothing has been read.
NoFile == "no file"
NoLogFile ==
    /\ log_file = NoFile
    /\ last_log_position = 0
    /\ new_events = <<>>
    /\ log_reads = 0
    /\ log_shown = 0

\* No task list is being saved and loaded.
NotLoaded == [raised |-> FALSE, tasks |-> <<>>]
NoTasksFile == [form |-> "none", keys |-> {}, tasks |-> <<>>]
NoStore ==
    /\ st_tasks = <<>>
    /\ st_file = NoTasksFile
    /\ st_loaded = NotLoaded
    /\ st_pc = "none"
    /\ next_task = <<>>

\* No task is being followed from its snapshot to its verdict.
NoVerdict == [returned |-> FALSE, success |-> FALSE, errors |-> "none"]
NoValidation ==
    /\ v_pc = "none"
    /\ v_tree = {}
    /\ v_commit = NoCommit
    /\ v_worker = "none"
    /\ v_status = PENDING
    /\ v_query_failed = FALSE
    /\ v_agent_tree = <<>>
    /\ v_result = NoVerdict

\* The run loop has not picked a task.
NoLoop ==
    /\ sl_pc = "none"
    /\ sl_task = 0
    /\ sl_commit = 0
    /\ sl_worker = "none"
    /\ sl_check_count = 0
    /\ sl_thread = 0
    /\ sl_threads = {}
    /\ sl_queue = <<>>
    /\ sl_consumed = <<>>
    /\ sl_saved = 0

\* No orchestrate call is being looked at.
NoOutcome == [returned |-> FALSE, success |-> FALSE]
NoFileText == [form |-> "none", entries |-> <<>>]
NoCall ==
    /\ or_pc = "none"
    /\ or_file = NoFileText
    /\ or_backup = <<>>
    /\ or_backups = 0
    /\ or_attempts = 0
    /\ or_reviews = 0
    /\ or_done = FALSE
    /\ or_passed = FALSE
    /\ or_committed = FALSE
    /\ or_result = NoOutcome

\* No terminate call is being looked at.
NoTerminate ==
    /\ tm_pc = "none"
    /\ tm_graceful = FALSE
    /\ tm_entry = "none"
    /\ tm_worker = "none"
    /\ tm_signals = <<>>
    /\ tm_ticks = 0

\* No agent output is being read.
NoReader ==
    /\ rd_pc = "none"
    /\ rd_lines = <<>>
    /\ rd_result = [events |-> <<>>, is_error |-> FALSE]

\* No run with an idle orchestrator is being looked at.
NoRun ==
    /\ rs_pc = "none"
    /\ rs_status = <<>>
    /\ rs_task = 0
    /\ rs_retries = 0
    /\ rs_processed = 0
    /\ rs_max_tasks = 0

\* `init` leaves a workspace whose tasks.json is committed (initialize commits
\* the configuration files it finds), with every task pending.
InitEngine ==
    /\ disk = [t \in InitialIds |-> NewTask]
    /\ mem = [t \in {} |-> NewTask]
    /\ head = disk
    /\ dirty = FALSE
    /\ pc = "idle"
    /\ starts = 0
    /\ task = NoTask
    /\ current_worker = FALSE
    /\ commit_before_task = NoCommit
    /\ failed_task_retries = 0
    /\ worker = "none"
    /\ worker_log = NoLog
    /\ sv_threads = {}
    /\ supervisor_queue = <<>>
    /\ orch_backup = <<>>
    /\ orch_edited = FALSE
    /\ orch_result = NoResult
    /\ unrecorded = ZeroCosts

Init == InitEngine /\ NoAnalysis /\ NoShutdownCall /\ NoLogFile /\ NoStore /\ NoValidation /\ NoLoop /\ NoCall /\ NoTerminate /\ NoReader /\ NoRun

\* run() returns and the process ends: its locals, its TaskManager and its
\* daemon supervisor threads are gone.
ProcessExit ==
    /\ pc' = "idle"
    /\ mem' = [t \in {} |-> NewTask]
    /\ task' = NoTask
    /\ current_worker' = FALSE
    /\ commit_before_task' = NoCommit
    /\ failed_task_retries' = 0
    /\ worker' = "none"
    /\ worker_log' = NoLog
    /\ sv_threads' = {}
    /\ supervisor_queue' = <<>>
    /\ orch_backup' = <<>>
    /\ orch_edited' = FALSE
    /\ orch_result' = NoResult

\* `run`: LongRunningAgent.__init__ loads tasks.json and creates a
\* CostTracker; run() starts at the loop head.
StartRun ==
    /\ pc = "idle"
    /\ mem' = disk
    /\ unrecorded' = ZeroCosts
    /\ pc' = "loop"
    /\ UNCHANGED <<disk, head, dirty, starts, localVars, workerVars, svVars,
                   orchVars>>
    /\ UNCHANGED besideEngine

\* A counter that never counts as used up.
retries_never_exhausted(n) == FALSE

\* `failed_task_retries >= MAX_FAILED_RETRIES`.
retries_exhausted(n) == n >= MAX_FAILED_RETRIES

\* Loop head, failed tasks present and the retries used up: break.
LoopGiveUp ==
    /\ pc = "loop"
    /\ has_failed_tasks(mem)
    /\ retries_exhausted(failed_task_retries)
    /\ ProcessExit
    /\ UNCHANGED <<disk, head, dirty, starts, unrecorded>>
    /\ UNCHANGED besideEngine

\* Loop head, failed tasks present: count the retry and call orchestrate,
\* whose first statement takes the backup.
LoopOrchestrate ==
    /\ pc = "loop"
    /\ has_failed_tasks(mem)
    /\ ~retries_exhausted(failed_task_retries)
    /\ failed_task_retries' = failed_task_retries + 1
    /\ orch_backup' = <<disk>>
    /\ orch_edited' = FALSE
    /\ pc' = "orch_loop"
    /\ UNCHANGED <<taskVars, starts, task, current_worker,
                   commit_before_task, workerVars, svVars, orch_result,
                   unrecorded>>
    /\ UNCHANGED besideEngine

\* Loop head, no failed task and nothing left to do: break.
LoopAllDone ==
    /\ pc = "loop"
    /\ ~has_failed_tasks(mem)
    /\ get_next_task(mem) = NoTask
    /\ ProcessExit
    /\ UNCHANGED <<disk, head, dirty, starts, unrecorded>>
    /\ UNCHANGED besideEngine

\* Loop head, no failed task: reset the retry counter, pick the next task
\* and record HEAD as the snapshot commit.  current_worker is still None
\* while the task is announced and the WorkerProcess is built.
SnapshotTask ==
    /\ pc = "loop"
    /\ ~has_failed_tasks(mem)
    /\ get_next_task(mem) # NoTask
    /\ starts < MaxStarts
    /\ failed_task_retries' = 0
    /\ task' = get_next_task(mem)
    /\ commit_before_task' = <<head>>
    /\ pc' = "start"
    /\ UNCHANGED <<taskVars, starts, current_worker, workerVars, svVars,
                   orchVars, unrecorded>>
    /\ UNCHANGED besideEngine

\* The worker is started, then the task is marked in progress and the
\* supervision loop is entered with a fresh queue and no thread handle.
StartTask ==
    /\ pc = "start"
    /\ starts' = starts + 1
    /\ mem' = mark_in_progress(mem, task, 1)
    /\ disk' = mem'
    /\ current_worker' = TRUE
    /\ worker' = "alive"
    /\ worker_log' = NoLog
    /\ supervisor_queue' = <<>>
    /\ pc' = "sv_top"
    /\ unrecorded' = ZeroCosts
    /\ UNCHANGED <<head, dirty, task, commit_before_task, failed_task_retries,
                   sv_threads, orchVars>>
    /\ UNCHANGED besideEngine

\* ------------------------------------------------------------ environment

\* The log of a worker that ended without a Result event: the assistant
\* events in it may carry usage.
KilledLogs == {[NoLog EXCEPT !.usage = u] : u \in BOOLEAN}

\* The log of a worker that ended by itself: with a Result event, which
\* carries the cost, or without one (crash, kill).  The Result is an error
\* (is_error true) or not; "blocked" is a Result with is_error false whose
\* text contains TASK_BLOCKED: <reason>, "ok" one without that token.
ExitLogs == KilledLogs \cup
            {[result |-> r, cost |-> 1, usage |-> TRUE] :
                r \in {"ok", "blocked", "error"}}

\* What a worker that ended owes the ledger: the cost of its Result, or an
\* estimate when there is usage but no Result.
EmitWorker(l, log) ==
    IF log.cost > 0 THEN Emit(l, "worker", log.cost)
    ELSE IF log.usage THEN Emit(l, "worker_estimated", 1)
    ELSE l

\* The worker process ends.  It may leave changed files, or have committed
\* everything in the tree itself.
WorkerExit ==
    /\ worker = "alive"
    /\ pc \in {"sv_top", "sv_body"}
    /\ worker' = "exited"
    /\ worker_log' \in ExitLogs
    /\ unrecorded' = EmitWorker(unrecorded, worker_log')
    /\ \/ dirty' \in {dirty, TRUE} /\ head' = head
       \/ dirty' = FALSE /\ head' = disk
    /\ UNCHANGED <<disk, mem, pc, starts, localVars, svVars, orchVars>>
    /\ UNCHANGED besideEngine

\* The decisions an analysis can return and what its Result event costs; a
\* cancelled analysis has terminated its child and returns continue.
SupervisorDecisions == {"continue", "orchestrate"}

SupervisorResults(th) ==
    IF th.cancelled THEN {[decision |-> "continue", cost |-> 0]}
    ELSE {[decision |-> d, cost |-> 1] : d \in SupervisorDecisions}

\* The supervision loop of the current task is running: only there is the
\* queue read.
Supervising == pc \in {"sv_top", "sv_body"}

\* run_supervisor, the thread body: analyze returns and the result is put
\* into the queue the thread was started with.  That queue is the run
\* loop's supervisor_queue only while the task it was created for is the
\* current one, and a result put into it after the supervision loop has
\* ended is never taken out.
SupervisorFinish ==
    /\ \E th \in sv_threads : \E r \in SupervisorResults(th) :
        /\ sv_threads' = sv_threads \ {th}
        /\ unrecorded' = Emit(unrecorded, "supervisor", r.cost)
        /\ supervisor_queue' =
               IF th.epoch = starts /\ Supervising
               THEN Append(supervisor_queue, r)
               ELSE supervisor_queue
    /\ UNCHANGED <<taskVars, pc, starts, localVars, workerVars, orchVars>>
    /\ UNCHANGED besideEngine

\* Supervisor.cancel(): the running analysis will observe the flag.
SupervisorCancel(threads) == {[th EXCEPT !.cancelled = TRUE] : th \in threads}

\* A handle that never reports a running thread.
supervisor_thread_never_alive == FALSE

\* supervisor_thread is not None and is_alive(): the handle is reset with
\* every task and always holds the last thread started for it, so it is
\* alive exactly when a thread started for the current task is running.
supervisor_thread_alive == \E th \in sv_threads : th.epoch = starts

\* ------------------------------------------------------- supervision loop

\* An is_alive that never finds the process running.
is_alive_never == FALSE
\* WorkerProcess.is_alive: the process has not ended.
is_alive == worker = "alive"

\* `while worker.is_alive():` finds the worker alive; the body sleeps and
\* prints the new events.
SvTop ==
    /\ pc = "sv_top"
    /\ is_alive
    /\ pc' = "sv_body"
    /\ UNCHANGED <<taskVars, starts, localVars, workerVars, svVars,
                   orchVars, unrecorded>>
    /\ UNCHANGED besideEngine

\* graceful_shutdown of a live worker: the worker is interrupted and its log
\* ends without a Result.  Without a session id in the log there is no
\* cleanup invocation and the default CleanupResult is returned; with one,
\* the cleanup child runs and the result counts as a success with or
\* without the HANDOVER markers.
GracefulShutdown ==
    {[success |-> FALSE, handover |-> FALSE, cost |-> 0, log |-> l] :
        l \in KilledLogs}
    \cup {[success |-> TRUE, handover |-> h, cost |-> 1, log |-> l] :
        h \in BOOLEAN, l \in KilledLogs}

\* The CleanupResult the callers use for a worker that is no longer alive.
NoShutdown(success) ==
    {[success |-> success, handover |-> FALSE, cost |-> 0, log |-> worker_log]}

\* The worker record both interrupt paths append after read_log: the cost of
\* the Result event, else the estimate from the usage in the log.
RecordInterruptedWorker(l, log) ==
    IF log.cost > 0 THEN CostAdd(l, "worker", log.cost)
    ELSE IF log.usage THEN CostAdd(l, "worker_estimated", 1)
    ELSE l

\* The queue drain takes one result: its cost is recorded, and a continue
\* decision is only printed.
DrainContinue ==
    /\ pc = "sv_body"
    /\ supervisor_queue # <<>>
    /\ Head(supervisor_queue).decision = "continue"
    /\ supervisor_queue' = Tail(supervisor_queue)
    /\ unrecorded' = CostAdd(unrecorded, "supervisor", Head(supervisor_queue).cost)
    /\ UNCHANGED <<taskVars, pc, starts, localVars, workerVars, sv_threads,
                   orchVars>>
    /\ UNCHANGED besideEngine

\* The queue drain takes a result that is not continue:
\* _handle_supervisor_decision records the worker's cost, shuts the worker
\* down if it is still alive, writes the handover (or the summary made from
\* the log) into the notes and calls orchestrate, which takes its backup.
DrainDecision ==
    /\ pc = "sv_body"
    /\ supervisor_queue # <<>>
    /\ Head(supervisor_queue).decision # "continue"
    /\ supervisor_queue' = Tail(supervisor_queue)
    /\ \E c \in (IF is_alive THEN GracefulShutdown
                 ELSE NoShutdown(FALSE)) :
        /\ worker_log' = c.log
        /\ unrecorded' =
             CostAdd(Emit(RecordInterruptedWorker(
                              IF is_alive
                              THEN EmitWorker(
                                       CostAdd(unrecorded, "supervisor",
                                               Head(supervisor_queue).cost),
                                       c.log)
                              ELSE CostAdd(unrecorded, "supervisor",
                                           Head(supervisor_queue).cost),
                              c.log),
                          "worker_cleanup", c.cost),
                     "worker_cleanup", c.cost)
        /\ mem' = update_notes(mem, task,
                               IF c.handover THEN "handover" ELSE "summary")
    /\ disk' = Saved(mem', task, disk)
    /\ worker' = "exited"
    /\ orch_backup' = <<disk'>>
    /\ orch_edited' = FALSE
    /\ pc' = "orch_decide"
    /\ UNCHANGED <<head, dirty, starts, localVars, sv_threads, orch_result>>
    /\ UNCHANGED besideEngine

\* The queue is empty and it is not yet time for a check, or a check is
\* still running: back to the loop condition.
SvSleep ==
    /\ pc = "sv_body"
    /\ supervisor_queue = <<>>
    /\ pc' = "sv_top"
    /\ UNCHANGED <<taskVars, starts, localVars, workerVars, svVars,
                   orchVars, unrecorded>>
    /\ UNCHANGED besideEngine

\* The queue is empty, CHECK_INTERVAL has passed since the last check and
\* the thread handle is None or not alive: start a supervisor thread.
StartSupervisor ==
    /\ pc = "sv_body"
    /\ supervisor_queue = <<>>
    /\ ~supervisor_thread_alive
    /\ sv_threads' = sv_threads \cup
           {[epoch |-> starts, cancelled |-> FALSE]}
    /\ pc' = "sv_top"
    /\ UNCHANGED <<taskVars, starts, localVars, workerVars,
                   supervisor_queue, orchVars, unrecorded>>
    /\ UNCHANGED besideEngine

\* ----------------------------------------------------------- finalization

\* The run loop is done with the task: current_worker and
\* commit_before_task are set to None.  The WorkerProcess and its log are
\* not looked at again.
ForgetWorker ==
    /\ current_worker' = FALSE
    /\ commit_before_task' = NoCommit
    /\ worker' = "none"
    /\ worker_log' = NoLog

\* The loop condition finds the worker gone: a running analysis is
\* cancelled and _finalize_worker records the worker's cost; what is left
\* in the queue is not read any more.  An error Result ends the function:
\* notes, then mark_failed.
FinalizeError ==
    /\ pc = "sv_top"
    /\ ~is_alive
    /\ worker_log.result = "error"
    /\ sv_threads' = IF supervisor_thread_alive
                     THEN SupervisorCancel(sv_threads) ELSE sv_threads
    /\ unrecorded' = CostAdd(unrecorded, "worker", worker_log.cost)
    /\ mem' = mark_failed(update_notes(mem, task, "exec_failed"), task,
                          "worker_error")
    /\ disk' = Saved(mem', task, disk)
    /\ ForgetWorker
    /\ supervisor_queue' = <<>>
    /\ pc' = "loop"
    /\ UNCHANGED <<head, dirty, starts, task, failed_task_retries, orchVars>>
    /\ UNCHANGED besideEngine

\* Any other log (a Result that is no error, or no Result at all) goes on
\* to validate_and_commit, which blocks on its agent.  The text of the
\* Result has not been looked at and is not read later either.
FinalizeValidate ==
    /\ pc = "sv_top"
    /\ ~is_alive
    /\ worker_log.result # "error"
    /\ sv_threads' = IF supervisor_thread_alive
                     THEN SupervisorCancel(sv_threads) ELSE sv_threads
    /\ unrecorded' = CostAdd(unrecorded, "worker", worker_log.cost)
    /\ supervisor_queue' = <<>>
    /\ worker_log' = [worker_log EXCEPT
                         !.result = IF @ = "blocked" THEN "ok" ELSE @]
    /\ pc' = "validate"
    /\ UNCHANGED <<taskVars, starts, localVars, worker, orchVars>>
    /\ UNCHANGED besideEngine

\* git status --porcelain lists something.
TreeDirty == dirty \/ disk # head

\* What validate_and_commit can do to a dirty tree:
\*   "checks"    the syntax check or the tests fail, before any agent call;
\*   "rejected"  the agent answers VALIDATION_FAILED;
\*   "committed" git add -A and git commit succeed;
\*   "nothing"   the agent has committed the changes itself, git commit
\*               finds nothing to commit and fails.
ValidatorOutcomes == IF TreeDirty THEN {"checks", "rejected", "committed", "nothing"}
                     ELSE {"clean"}

ValidatorSuccess(o) == o \in {"clean", "committed"}

\* cost_usd of the ValidationResult: the agent's Result, when it was called.
ValidatorCost(o) == IF o \in {"clean", "checks"} THEN 0 ELSE 1

\* A validator that marks the task failed itself.
ValidatorNotesFailed(tasks, id, o) ==
    IF o = "clean" THEN tasks ELSE mark_failed(tasks, id, "validator_error")

\* The list validate_and_commit leaves in the TaskManager: the notes are
\* cleared after a commit and set to the error on every failure.
ValidatorNotes(tasks, id, o) ==
    CASE o = "clean" -> tasks
      [] o = "committed" -> clear_notes(tasks, id)
      [] OTHER -> [tasks EXCEPT ![id].notes = "validator_error"]

\* tasks.json at HEAD after validate_and_commit: git add -A takes the file
\* as it is on disk at that moment.
ValidatorHead(o) == IF o \in {"committed", "nothing"} THEN disk ELSE head

ValidatorDirty(o) == IF o \in {"committed", "nothing"} THEN FALSE ELSE dirty

\* validate_and_commit returns with success: the cost is recorded and the
\* task marked completed; the run loop forgets the worker.
ValidatePassed ==
    /\ pc = "validate"
    /\ \E o \in ValidatorOutcomes :
        /\ ValidatorSuccess(o)
        /\ head' = ValidatorHead(o)
        /\ dirty' = ValidatorDirty(o)
        /\ unrecorded' = CostAdd(Emit(unrecorded, "validator", ValidatorCost(o)),
                                 "validator", ValidatorCost(o))
        /\ mem' = mark_completed(ValidatorNotes(mem, task, o), task)
    /\ disk' = Saved(mem', task, disk)
    /\ ForgetWorker
    /\ pc' = "loop"
    /\ UNCHANGED <<starts, task, failed_task_retries, svVars, orchVars>>
    /\ UNCHANGED besideEngine

\* validate_and_commit returns a failure: the cost is recorded and
\* orchestrate is called with the errors as context; it takes its backup.
ValidateFailed ==
    /\ pc = "validate"
    /\ \E o \in ValidatorOutcomes :
        /\ ~ValidatorSuccess(o)
        /\ head' = ValidatorHead(o)
        /\ dirty' = ValidatorDirty(o)
        /\ unrecorded' = CostAdd(Emit(unrecorded, "validator", ValidatorCost(o)),
                                 "validator", ValidatorCost(o))
        /\ mem' = ValidatorNotes(mem, task, o)
    /\ disk' = mem'
    /\ orch_backup' = <<disk'>>
    /\ orch_edited' = FALSE
    /\ pc' = "orch_final"
    /\ UNCHANGED <<starts, localVars, workerVars, svVars, orch_result>>
    /\ UNCHANGED besideEngine

\* ------------------------------------------------------------ orchestrator

OrchPcs == {"orch_loop", "orch_decide", "orch_final"}

\* What the orchestrator agent is asked to do to tasks.json: delete or reset
\* a task that is not completed, mark a task it finds done completed, add a
\* task as pending.  Completed tasks are left alone.
OrchestratorEdits(d) ==
    {[t \in DOMAIN d \ {x} |-> d[t]] :
        x \in {t \in DOMAIN d : d[t].status # COMPLETED}}
    \cup {[d EXCEPT ![x].status = PENDING] :
        x \in {t \in DOMAIN d : d[t].status \in {FAILED, IN_PROGRESS}}}
    \cup {[d EXCEPT ![x].status = COMPLETED] :
        x \in {t \in DOMAIN d : d[t].status = IN_PROGRESS}}
    \cup {[t \in DOMAIN d \cup {x} |-> IF t = x THEN NewTask ELSE d[t]] :
        x \in TaskIds \ DOMAIN d}

\* The orchestrator agent rewrites tasks.json in place during one of the
\* attempts.
OrchestratorAgentEdit ==
    /\ pc \in OrchPcs
    /\ ~orch_edited
    /\ orch_edited' = TRUE
    /\ disk' \in OrchestratorEdits(disk)
    /\ UNCHANGED <<mem, head, dirty, pc, starts, localVars, workerVars,
                   svVars, orch_backup, orch_result, unrecorded>>
    /\ UNCHANGED besideEngine

\* _restore_backup: the backup is written back, then `git checkout
\* tasks.json` replaces the file by the committed version; when git fails
\* (its return code is not looked at) the backup stays.
RestoreBackup(backup) == IF backup = <<>> THEN {disk} ELSE {head, backup[1]}

AfterOrch(p) == CASE p = "orch_loop" -> "after_orch_loop"
                  [] p = "orch_decide" -> "after_orch_decide"
                  [] p = "orch_final" -> "after_orch_final"

\* orchestrate returns a failure: ORCHESTRATION_DONE or REVIEW_PASSED never
\* came, or _validate_tasks rejected the file; the backup is restored.  The
\* agent is gone.
OrchestrateFails ==
    /\ pc \in OrchPcs
    /\ disk' \in RestoreBackup(orch_backup)
    /\ orch_result' = [caller |-> pc, success |-> FALSE]
    /\ orch_edited' = FALSE
    /\ unrecorded' = Emit(unrecorded, "orchestrator", 1)
    /\ pc' = AfterOrch(pc)
    /\ UNCHANGED <<mem, head, dirty, starts, localVars, workerVars,
                   svVars, orch_backup>>
    /\ UNCHANGED besideEngine

\* orchestrate returns success: both tokens came and the file is valid;
\* _commit_tasks commits tasks.json alone if it differs from the index.
OrchestrateSucceeds ==
    /\ pc \in OrchPcs
    /\ ~has_failed_tasks(disk)
    /\ head' = disk
    /\ orch_result' = [caller |-> pc, success |-> TRUE]
    /\ orch_edited' = FALSE
    /\ unrecorded' = Emit(unrecorded, "orchestrator", 1)
    /\ pc' = AfterOrch(pc)
    /\ UNCHANGED <<disk, mem, dirty, starts, localVars, workerVars,
                   svVars, orch_backup>>
    /\ UNCHANGED besideEngine

\* orchestrate is over for its caller.
OrchestrateDone ==
    /\ orch_backup' = <<>>
    /\ orch_edited' = FALSE
    /\ orch_result' = NoResult

\* Loop head after orchestrate: record the cost, reload the list, continue.
AfterLoopOrchestrate ==
    /\ pc = "after_orch_loop"
    /\ unrecorded' = CostAdd(unrecorded, "orchestrator", 1)
    /\ mem' = disk
    /\ OrchestrateDone
    /\ pc' = "loop"
    /\ UNCHANGED <<disk, head, dirty, starts, localVars, workerVars,
                   svVars>>
    /\ UNCHANGED besideEngine

\* _handle_supervisor_decision after orchestrate: record the cost, and on a
\* failure mark the task failed.  The run loop then forgets the worker.
AfterDecisionOrchestrate ==
    /\ pc = "after_orch_decide"
    /\ unrecorded' = CostAdd(unrecorded, "orchestrator", 1)
    /\ mem' = IF orch_result.success THEN mem
              ELSE mark_failed(mem, task, "orchestration_failed")
    /\ disk' = IF orch_result.success THEN disk ELSE Saved(mem', task, disk)
    /\ OrchestrateDone
    /\ ForgetWorker
    /\ pc' = "loop"
    /\ UNCHANGED <<head, dirty, starts, task, failed_task_retries, svVars>>
    /\ UNCHANGED besideEngine

\* _finalize_worker after orchestrate: record the cost and reload the list.
\* The run loop then forgets the worker.
AfterFinalizeOrchestrate ==
    /\ pc = "after_orch_final"
    /\ unrecorded' = CostAdd(unrecorded, "orchestrator", 1)
    /\ mem' = disk
    /\ OrchestrateDone
    /\ ForgetWorker
    /\ pc' = "loop"
    /\ UNCHANGED <<disk, head, dirty, starts, task, failed_task_retries,
                   svVars>>
    /\ UNCHANGED besideEngine

\* --------------------------------------------------------------- interrupt

\* Where Ctrl-C finds the main thread: announcing the task it is about to
\* start, asleep in the supervision loop, or blocked on the validator's or
\* the orchestrator's agent.
InterruptiblePcs == {"start", "sv_top", "sv_body", "validate"} \cup OrchPcs

\* git reset --hard <commit_before_task>.
GitResetTo(commit, file) == IF commit = NoCommit THEN file ELSE commit[1]

\* The KeyboardInterrupt handler of run(): record the worker's cost, shut
\* the worker down if it is alive, write the handover into the notes, reset
\* the tree when the cleanup did not succeed, return.
KeyboardInterrupt ==
    /\ pc \in InterruptiblePcs
    /\ \E c \in (IF current_worker /\ is_alive THEN GracefulShutdown
                 ELSE NoShutdown(current_worker)) :
        /\ unrecorded' =
             IF ~current_worker THEN unrecorded
             ELSE CostAdd(Emit(RecordInterruptedWorker(
                                   IF is_alive
                                   THEN EmitWorker(unrecorded, c.log)
                                   ELSE unrecorded,
                                   c.log),
                               "worker_cleanup", c.cost),
                          "worker_cleanup", c.cost)
        /\ LET noted == IF current_worker
                        THEN update_notes(mem, task, IF c.handover THEN "handover"
                                                     ELSE "summary")
                        ELSE mem
               saved == IF current_worker THEN Saved(noted, task, disk) ELSE disk
               reset == ~c.success /\ commit_before_task # NoCommit
           IN  /\ disk' = IF reset THEN GitResetTo(commit_before_task, saved)
                          ELSE saved
               /\ head' = IF reset THEN GitResetTo(commit_before_task, head)
                          ELSE head
               /\ dirty' = IF reset THEN FALSE ELSE dirty
    /\ ProcessExit
    /\ UNCHANGED <<starts>>
    /\ UNCHANGED besideEngine

\* ------------------------------------------------------ supervisor analysis

\* A response text as a sequence of tokens: an opening or closing brace, a
\* stretch of prose, or a member of a JSON object.  A decision member is
\* "decision": <value>, named by its value: one of the five strings, some
\* other string ("other") or a value that is no string ("nonstring");
\* "subtasks" is the member "subtasks": [a non-empty list].
DecisionTokens == {"continue", "orchestrate", "split", "wait", "intervene",
                   "other", "nonstring"}
Members == DecisionTokens \cup {"subtasks"}
Tokens == {"{", "}", "text"} \cup Members
Responses == UNION {[1..n -> Tokens] : n \in 0..MaxResponseLen}

\* str.find and str.rfind as 1-based positions, 0 for Python's -1.
find(text, tok) ==
    IF \E i \in DOMAIN text : text[i] = tok
    THEN CHOOSE i \in DOMAIN text :
             text[i] = tok /\ \A k \in 1..(i - 1) : text[k] # tok
    ELSE 0

rfind(text, tok) ==
    IF \E i \in DOMAIN text : text[i] = tok
    THEN CHOOSE i \in DOMAIN text :
             text[i] = tok /\ \A k \in (i + 1)..Len(text) : text[k] # tok
    ELSE 0

\* json.loads of a slice: the members of the object, or "error" for a
\* JSONDecodeError (an empty slice, prose or a stray brace inside).
json_loads(slice) ==
    IF /\ Len(slice) >= 2
       /\ slice[1] = "{"
       /\ slice[Len(slice)] = "}"
       /\ \A k \in 2..(Len(slice) - 1) : slice[k] \in Members
    THEN SubSeq(slice, 2, Len(slice) - 1)
    ELSE "error"

\* data.get("decision", "continue"): of repeated keys the last one counts.
decision_get(data) ==
    LET ks == {k \in DOMAIN data : data[k] \in DecisionTokens}
    IN  IF ks = {} THEN "continue"
        ELSE data[CHOOSE k \in ks : \A j \in ks : j <= k]

\* A lookup that escalates on a string it does not know.
decision_map_escalating(decision_str) ==
    IF decision_str \in {"continue", "split", "wait", "intervene"}
    THEN decision_str ELSE "intervene"

\* The dictionary lookup with its default.
decision_map(decision_str) ==
    IF decision_str \in {"continue", "split", "wait", "intervene"}
    THEN decision_str ELSE "continue"

\* _parse_response: the decision of the SupervisorResult it returns, or
\* "raise" for the AttributeError of .lower() on a value that is no string.
parse_response(text) ==
    LET json_start == find(text, "{")
        json_end == rfind(text, "}")
        data == json_loads(SubSeq(text, json_start, json_end))
    IN  IF json_start = 0 \/ json_end = 0 THEN "continue"
        ELSE IF data = "error" THEN "continue"
        ELSE IF decision_get(data) = "nonstring" THEN "raise"
        ELSE IF decision_map(decision_get(data)) # "split"
             THEN decision_map(decision_get(data))
        ELSE IF \E k \in DOMAIN data : data[k] = "subtasks" THEN "split"
        ELSE "continue"

\* analyze: the agent call times out, raises, or returns a text that is
\* parsed; every exception ends in continue.
analyze(call, text) ==
    IF call # "returned" THEN "continue"
    ELSE IF parse_response(text) = "raise" THEN "continue"
    ELSE parse_response(text)

\* A supervisor check is started: the agent call will end one way or
\* another.
InitAnalysis ==
    /\ \/ sv_call = "returned" /\ response \in Responses
       \/ sv_call \in {"timeout", "raised"} /\ response = <<>>
    /\ sv_decision = "none"
    /\ sv_dispatch = "none"

\* run_supervisor: analyze returns and the result is put into the queue.
Analyze ==
    /\ sv_decision = "none"
    /\ sv_decision' = analyze(sv_call, response)
    /\ UNCHANGED <<sv_call, response, sv_dispatch>>
    /\ UNCHANGED besideAnalysis

\* The queue drain of the run loop: a result other than continue is handed
\* to _handle_supervisor_decision, continue is only printed.
Dispatch ==
    /\ sv_decision # "none"
    /\ sv_dispatch = "none"
    /\ sv_dispatch' = IF sv_decision # "continue" THEN "handled" ELSE "printed"
    /\ UNCHANGED <<sv_call, response, sv_decision>>
    /\ UNCHANGED besideAnalysis

\* ------------------------------------------------------ graceful shutdown

\* graceful_shutdown has been entered: the result is the default
\* CleanupResult and the session id has been looked for in the log.  The
\* worker may have ended since the caller found it alive.
InitShutdown ==
    /\ gs_pc = "called"
    /\ gs_session \in BOOLEAN
    /\ gs_worker \in {"alive", "dead"}
    /\ gs_signals = <<>>
    /\ gs_ticks = 0
    /\ gs_cleanup = "none"
    /\ gs_result = CleanupResult
    /\ gs_calls = 1
    /\ gs_first = <<>>

\* The worker process ends, by itself or on the SIGINT.
GsWorkerExits ==
    /\ gs_worker = "alive"
    /\ gs_pc # "exited"
    /\ gs_worker' = "dead"
    /\ UNCHANGED <<gs_pc, gs_session, gs_signals, gs_ticks, gs_cleanup,
                   gs_result>>
    /\ UNCHANGED <<besideShutdown, gs_calls, gs_first>>

\* Step 2: a worker that is alive gets SIGINT on its process group and the
\* wait loop is entered.
GsSigint ==
    /\ gs_pc = "called"
    /\ IF gs_worker = "alive"
       THEN /\ gs_signals' = Append(gs_signals, "SIGINT")
            /\ gs_pc' = "waiting"
       ELSE /\ gs_signals' = gs_signals
            /\ gs_pc' = "waited"
    /\ UNCHANGED <<gs_session, gs_worker, gs_ticks, gs_cleanup, gs_result>>
    /\ UNCHANGED <<besideShutdown, gs_calls, gs_first>>

\* One iteration of the wait loop: break when the worker is gone, else
\* sleep; the loop ends after SIGINT_WAIT_TICKS iterations.
GsTick ==
    /\ gs_pc = "waiting"
    /\ IF gs_ticks = SIGINT_WAIT_TICKS \/ gs_worker = "dead"
       THEN gs_pc' = "waited" /\ gs_ticks' = gs_ticks
       ELSE gs_pc' = gs_pc /\ gs_ticks' = gs_ticks + 1
    /\ UNCHANGED <<gs_session, gs_worker, gs_signals, gs_cleanup, gs_result>>
    /\ UNCHANGED <<besideShutdown, gs_calls, gs_first>>

\* A worker that is still alive is killed: SIGKILL on its process group.
GsKill ==
    /\ gs_pc = "waited"
    /\ gs_signals' = IF gs_worker = "alive"
                     THEN Append(gs_signals, "SIGKILL") ELSE gs_signals
    /\ gs_worker' = "dead"
    /\ gs_pc' = "killed"
    /\ UNCHANGED <<gs_session, gs_ticks, gs_cleanup, gs_result>>
    /\ UNCHANGED <<besideShutdown, gs_calls, gs_first>>

\* A check that never skips the cleanup.
skip_cleanup_never == FALSE

\* `if not session_id`.
skip_cleanup == ~gs_session

\* Step 3: without a session id the default CleanupResult is returned.
GsNoSession ==
    /\ gs_pc = "killed"
    /\ skip_cleanup
    /\ gs_pc' = "returned"
    /\ UNCHANGED <<gs_session, gs_worker, gs_signals, gs_ticks, gs_cleanup,
                   gs_result>>
    /\ UNCHANGED <<besideShutdown, gs_calls, gs_first>>

\* Step 4: the cleanup child is started in a session of its own and waited
\* for; if it cannot be started the default CleanupResult is returned.
GsSpawn ==
    /\ gs_pc = "killed"
    /\ ~skip_cleanup
    /\ \/ gs_cleanup' = "running" /\ gs_pc' = "cleanup"
       \/ gs_cleanup' = gs_cleanup /\ gs_pc' = "returned"
    /\ UNCHANGED <<gs_session, gs_worker, gs_signals, gs_ticks, gs_result>>
    /\ UNCHANGED <<besideShutdown, gs_calls, gs_first>>

\* The cleanup child ends.
GsCleanupExits ==
    /\ gs_cleanup = "running"
    /\ gs_cleanup' = "exited"
    /\ UNCHANGED <<gs_pc, gs_session, gs_worker, gs_signals, gs_ticks,
                   gs_result>>
    /\ UNCHANGED <<besideShutdown, gs_calls, gs_first>>

\* What _parse_cleanup_log and the lines after it make of the cleanup log:
\* a success with or without HANDOVER_END, a summary only between both
\* markers, the cost of the Result event if there is one.
CleanupLogs ==
    {r \in [success : {TRUE}, handover_summary : BOOLEAN,
            cleanup_done : BOOLEAN, cost_usd : {0, 1}] :
        r.handover_summary => r.cleanup_done}

\* Step 5: wait() returns, the cleanup log is parsed and returned.
GsParse ==
    /\ gs_pc = "cleanup"
    /\ gs_cleanup = "exited"
    /\ gs_result' \in CleanupLogs
    /\ gs_pc' = "returned"
    /\ UNCHANGED <<gs_session, gs_worker, gs_signals, gs_ticks, gs_cleanup>>
    /\ UNCHANGED <<besideShutdown, gs_calls, gs_first>>

\* Ctrl-C while the handler is inside graceful_shutdown, asleep in the wait
\* loop or blocked in wait(): the KeyboardInterrupt is no Exception, it
\* leaves graceful_shutdown and the handler, and the engine ends.
GsSecondInterrupt ==
    /\ gs_pc \in {"waiting", "cleanup"}
    /\ gs_pc' = "exited"
    /\ UNCHANGED <<gs_session, gs_worker, gs_signals, gs_ticks, gs_cleanup,
                   gs_result>>
    /\ UNCHANGED <<besideShutdown, gs_calls, gs_first>>

\* The handler goes on with the CleanupResult and returns from run().
GsHandlerReturns ==
    /\ gs_pc = "returned"
    /\ gs_pc' = "exited"
    /\ UNCHANGED <<gs_session, gs_worker, gs_signals, gs_ticks, gs_cleanup,
                   gs_result>>
    /\ UNCHANGED <<besideShutdown, gs_calls, gs_first>>

\* graceful_shutdown is called again on the same WorkerProcess after it has
\* returned: a new default CleanupResult, and the session id is read from
\* the same log.
GsCallAgain ==
    /\ gs_pc = "returned"
    /\ gs_calls < MaxCalls
    /\ gs_calls' = gs_calls + 1
    /\ gs_first' = IF gs_first = <<>> THEN <<gs_result>> ELSE gs_first
    /\ gs_result' = CleanupResult
    /\ gs_ticks' = 0
    /\ gs_pc' = "called"
    /\ UNCHANGED <<gs_session, gs_worker, gs_signals, gs_cleanup>>
    /\ UNCHANGED besideShutdown

\* ------------------------------------------------------- displayed events
\* The log file as the pieces the worker and its stderr have written: a
\* JSON object that is displayed ("event"), written in one piece or as its
\* first part ("head") and its rest ("tail"), a JSON value that is not an
\* object ("null"), any other text ("text") and the end of a line ("nl").
LogPieces == {"event", "head", "tail", "null", "text", "nl"}

\* What the body of the read loop does with one stripped line: json.loads
\* raises JSONDecodeError for text that is not one JSON value and the line
\* is skipped; _parse_event_for_display raises AttributeError for a value
\* without .get, which leaves the loop.
LineKind(line) ==
    IF line = <<>> THEN "blank"
    ELSE IF line = <<"event">> THEN "event"
    ELSE IF line = <<"head", "tail">> THEN "event"
    ELSE IF line = <<"null">> THEN "raises"
    ELSE "skipped"

\* The read loop of read_new_events over log[i..], `line` being the pieces
\* of the current line read so far; an unterminated last line is a line.
\* raised: an exception went to the outer handler.
RECURSIVE read_lines(_, _, _, _)
read_lines(log, i, line, events) ==
    IF i > Len(log) \/ log[i] = "nl"
    THEN IF LineKind(line) = "raises"
         THEN [events |-> events, raised |-> TRUE]
         ELSE LET evs == IF LineKind(line) = "event"
                         THEN Append(events, "event") ELSE events
              IN  IF i > Len(log)
                  THEN [events |-> evs, raised |-> FALSE]
                  ELSE read_lines(log, i + 1, <<>>, evs)
    ELSE read_lines(log, i + 1, Append(line, log[i]), events)

\* The position is stored by the last statement of the try block only.
position_stored(r) == ~r.raised

InitLog == NoLogFile

\* WorkerProcess.start opens the log file for writing.
LogStart ==
    /\ log_file = NoFile
    /\ log_file' = <<>>
    /\ log_reads' = 0
    /\ UNCHANGED <<last_log_position, new_events, log_shown>>
    /\ UNCHANGED besideLog

\* The worker process writes to its stdout or stderr.
LogWrite ==
    /\ log_file # NoFile
    /\ Len(log_file) < MaxLogLen
    /\ \E piece \in LogPieces : log_file' = Append(log_file, piece)
    /\ log_reads' = 0
    /\ UNCHANGED <<last_log_position, new_events, log_shown>>
    /\ UNCHANGED besideLog

ReadNewEvents ==
    /\ log_reads' = IF log_reads = 0 THEN 1 ELSE 2
    /\ IF log_file = NoFile
       THEN /\ new_events' = <<>>
            /\ UNCHANGED last_log_position
            /\ UNCHANGED log_shown
       ELSE LET r == read_lines(log_file, last_log_position + 1, <<>>, <<>>)
            IN  /\ new_events' = r.events
                /\ log_shown' = IF log_shown + Len(r.events) > MaxLogLen
                                 THEN MaxLogLen + 1
                                 ELSE log_shown + Len(r.events)
                /\ last_log_position' =
                       IF position_stored(r) THEN Len(log_file)
                       ELSE last_log_position
    /\ UNCHANGED log_file
    /\ UNCHANGED besideLog

\* ------------------------------------------------------------ tasks file
None == "None"

\* A task id is a string of segments joined by dots; a segment is a string
\* of characters, a digit being written as its value and the dot as Dot.
Dot == -1
\* int(x) for a segment of digits.
RECURSIVE int(_)
int(seg) ==
    IF Len(seg) = 1 THEN seg[1]
    ELSE int(SubSeq(seg, 1, Len(seg) - 1)) * 10 + seg[Len(seg)]

IsDigits(seg) == seg # <<>> /\ \A i \in DOMAIN seg : seg[i] \in 0..9

\* ord(c) for the characters of an id.
ord(c) == IF c = Dot THEN 46 ELSE 48 + c

\* The characters of the id string.
RECURSIVE chars(_)
chars(id) ==
    IF Len(id) = 1 THEN id[1]
    ELSE chars(SubSeq(id, 1, Len(id) - 1)) \o <<Dot>> \o id[Len(id)]

\* parse_task_id taken as the code points of the string whatever the id.
parse_task_id_text(id) == [i \in DOMAIN chars(id) |-> ord(chars(id)[i])]
\* parse_task_id: the integers of the segments, or, when int() raises
\* ValueError for one of them, the code points of the string.
parse_task_id(id) ==
    IF \A i \in DOMAIN id : IsDigits(id[i])
    THEN [i \in DOMAIN id |-> int(id[i])]
    ELSE [i \in DOMAIN chars(id) |-> ord(chars(id)[i])]

\* The fields of the Task dataclass and the defaults of the optional ones.
TaskFields == {"id", "description", "steps", "status", "session_id",
               "error_message", "notes"}
FieldDefaults == [steps |-> <<>>, status |-> PENDING, session_id |-> None,
                  error_message |-> None, notes |-> None]

\* JSON text of a field's value, and the value json.load makes of JSON text:
\* None is null, a str is a string, steps is an array of strings.
json_dump(f, v) ==
    IF f = "steps"
    THEN [t |-> "array", v |-> [i \in DOMAIN v |-> [t |-> "string", v |-> v[i]]]]
    ELSE IF f \in {"session_id", "error_message", "notes"} /\ v = None
    THEN [t |-> "null"]
    ELSE [t |-> "string", v |-> v]

json_load(x) ==
    IF x.t = "null" THEN None
    ELSE IF x.t = "array" THEN [i \in DOMAIN x.v |-> x.v[i].v]
    ELSE x.v

\* Task.to_dict as json.dump writes it.
to_dict(t) == [f \in DOMAIN t |-> json_dump(f, t[f])]

\* A from_dict that hands every key to the constructor.
from_dict_unfiltered(data) ==
    [raised |-> FALSE, task |-> [f \in DOMAIN data |-> json_load(data[f])]]
\* Task.from_dict on a JSON object: keys that are no field are left out;
\* the constructor raises TypeError without id or description.
from_dict(data) ==
    LET filtered == DOMAIN data \cap TaskFields
    IN  [raised |-> ~({"id", "description"} \subseteq filtered),
         task |-> [f \in TaskFields |->
                      IF f \in filtered THEN json_load(data[f])
                      ELSE IF f \in DOMAIN FieldDefaults THEN FieldDefaults[f]
                      ELSE None]]

\* sorted(tasks, key=parse_task_id): stable.
RECURSIVE sorted(_)
sorted(tasks) ==
    IF tasks = <<>> THEN <<>>
    ELSE LET n == Len(tasks)
             x == tasks[n]
             front == sorted(SubSeq(tasks, 1, n - 1))
             k == Cardinality({i \in DOMAIN front :
                     ~KeyLess(parse_task_id(x.id), parse_task_id(front[i].id))})
         IN  SubSeq(front, 1, k) \o <<x>> \o SubSeq(front, k + 1, n - 1)

\* _load_tasks: a list is the task list, an object gives its "tasks".
load_tasks(file) ==
    IF file = NoTasksFile THEN NotLoaded
    ELSE LET task_list == IF file.form = "array" THEN file.tasks
                          ELSE IF "tasks" \in file.keys THEN file.tasks
                          ELSE <<>>
             made == [i \in DOMAIN task_list |-> from_dict(task_list[i])]
         IN  [raised |-> \E i \in DOMAIN made : made[i].raised,
              tasks |-> [i \in DOMAIN made |-> made[i].task]]

\* The tasks a list is drawn from: ids "2" and "10".
StoredTasks ==
    [id : {<< <<2>> >>, << <<1, 0>> >>}, description : {"d"},
     steps : {<<>>, <<"s">>}, status : {PENDING, FAILED},
     session_id : {None, "worker_1"}, error_message : {None},
     notes : {None, "n"}]

InitStore ==
    /\ st_tasks \in UNION {[1..n -> StoredTasks] : n \in 0..MaxTasks}
    /\ st_file = NoTasksFile
    /\ st_loaded = NotLoaded
    /\ st_pc = "made"
    /\ next_task = <<>>

\* save_tasks: the sorted list as a JSON array.
SaveTasks ==
    /\ st_pc = "made"
    /\ st_file' = [form |-> "array", keys |-> {},
                   tasks |-> [i \in DOMAIN st_tasks |->
                                 to_dict(sorted(st_tasks)[i])]]
    /\ st_pc' = "saved"
    /\ UNCHANGED <<st_tasks, st_loaded, next_task>>
    /\ UNCHANGED besideStore

\* The file is rewritten by hand or by an agent: the list is put into an
\* object under "tasks", a key that is no field is added to the tasks.
EditTasksFile ==
    /\ st_pc = "saved"
    /\ \E wrap, extra \in BOOLEAN :
          /\ wrap \/ extra
          /\ st_file' =
                [form |-> IF wrap THEN "object" ELSE "array",
                 keys |-> IF wrap THEN {"tasks"} ELSE {},
                 tasks |-> [i \in DOMAIN st_file.tasks |->
                     IF extra
                     THEN st_file.tasks[i] @@
                          ("priority" :> [t |-> "string", v |-> "high"])
                     ELSE st_file.tasks[i]]]
    /\ st_pc' = "edited"
    /\ UNCHANGED <<st_tasks, st_loaded, next_task>>
    /\ UNCHANGED besideStore

\* A TaskManager is constructed on the file.
LoadTasks ==
    /\ st_pc \in {"saved", "edited"}
    /\ st_loaded' = load_tasks(st_file)
    /\ st_pc' = "loaded"
    /\ UNCHANGED <<st_tasks, st_file, next_task>>
    /\ UNCHANGED besideStore

\* ------------------------------------------------------------- next task
\* eligible_tasks: the pending and in_progress tasks, in list order.
RECURSIVE eligible_tasks(_)
eligible_tasks(tasks) ==
    IF tasks = <<>> THEN <<>>
    ELSE LET rest == eligible_tasks(Tail(tasks))
         IN  IF Head(tasks).status \in {PENDING, IN_PROGRESS}
             THEN <<Head(tasks)>> \o rest ELSE rest

\* get_next_task on a task list: the first of the sorted eligible tasks.
next_of(tasks) ==
    IF eligible_tasks(tasks) = <<>> THEN <<>>
    ELSE <<sorted(eligible_tasks(tasks))[1]>>

\* The ids "2", "2.1", "2.1.9", "2.1.10" and "3".
TreeIds == {<< <<2>> >>, << <<2>>, <<1>> >>, << <<2>>, <<1>>, <<9>> >>,
            << <<2>>, <<1>>, <<1, 0>> >>, << <<3>> >>}
TreeTasks ==
    [id : TreeIds, description : {"d"}, steps : {<<>>}, status : Statuses,
     session_id : {None}, error_message : {None}, notes : {None}]

InitNextTask ==
    /\ st_tasks \in UNION {[1..n -> TreeTasks] : n \in 0..MaxTasks}
    /\ st_file = NoTasksFile
    /\ st_loaded = NotLoaded
    /\ st_pc = "made"
    /\ next_task = <<>>

GetNextTask ==
    /\ st_pc = "made"
    /\ next_task' = next_of(st_tasks)
    /\ st_pc' = "asked"
    /\ UNCHANGED <<st_tasks, st_file, st_loaded>>
    /\ UNCHANGED besideStore

\* mark_completed of the task returned, then the next call.
NextCompleted ==
    /\ st_pc = "asked"
    /\ next_task # <<>>
    /\ LET first == CHOOSE i \in DOMAIN st_tasks :
                        /\ st_tasks[i].id = next_task[1].id
                        /\ \A j \in 1..(i - 1) :
                               st_tasks[j].id # next_task[1].id
       IN  st_tasks' = [st_tasks EXCEPT ![first].status = COMPLETED]
    /\ st_pc' = "made"
    /\ next_task' = <<>>
    /\ UNCHANGED <<st_file, st_loaded>>
    /\ UNCHANGED besideStore

\* ----------------------------------------------------- one task's verdict
\* One task from the snapshot of HEAD to the Validator's verdict, each git
\* command succeeding or failing.
TreeFiles == {"tasks.json", "a.py", "README"}

InitValidation ==
    /\ v_pc = "snapshot"
    /\ v_tree \in SUBSET (TreeFiles \ {"tasks.json"})
    /\ v_commit = NoCommit
    /\ v_worker = "none"
    /\ v_status \in {PENDING, IN_PROGRESS}
    /\ v_query_failed = FALSE
    /\ v_agent_tree = <<>>
    /\ v_result = NoVerdict

\* _get_last_good_commit: the hash git log prints, None when git fails.
VsSnapshot ==
    /\ v_pc = "snapshot"
    /\ \E returncode \in {0, 1} :
          v_commit' = IF returncode = 0 THEN <<"hash">> ELSE NoCommit
    /\ v_pc' = "start"
    /\ UNCHANGED <<v_tree, v_worker, v_status, v_query_failed, v_agent_tree,
                   v_result>>
    /\ UNCHANGED besideValidation

\* The worker is created and started: worker.start() returns the pid of
\* the running process.
VsStartWorker ==
    /\ v_pc = "start"
    /\ v_worker' = "alive"
    /\ v_pc' = "mark"
    /\ UNCHANGED <<v_tree, v_commit, v_status, v_query_failed, v_agent_tree,
                   v_result>>
    /\ UNCHANGED besideValidation

\* mark_in_progress(task.id, "worker_<pid>") saves tasks.json.
VsMarkInProgress ==
    /\ v_pc = "mark"
    /\ v_status' = IN_PROGRESS
    /\ v_tree' = v_tree \cup {"tasks.json"}
    /\ v_pc' = "working"
    /\ UNCHANGED <<v_commit, v_worker, v_query_failed, v_agent_tree, v_result>>
    /\ UNCHANGED besideValidation

\* The worker edits a file, or commits everything.
VsWorkerEdits ==
    /\ v_pc = "working"
    /\ v_worker = "alive"
    /\ \/ \E f \in TreeFiles : v_tree' = v_tree \cup {f}
       \/ v_tree' = {}
    /\ UNCHANGED <<v_pc, v_commit, v_worker, v_status, v_query_failed,
                   v_agent_tree, v_result>>
    /\ UNCHANGED besideValidation

\* The worker ends by itself with a Result that is no error and
\* _finalize_worker calls validate_and_commit.
VsWorkerExits ==
    /\ v_pc = "working"
    /\ v_worker = "alive"
    /\ v_worker' = "exited"
    /\ v_pc' = "status"
    /\ UNCHANGED <<v_tree, v_commit, v_status, v_query_failed, v_agent_tree,
                   v_result>>
    /\ UNCHANGED besideValidation

\* _get_changed_files: the files git status lists, nothing when it fails.
get_changed_files(returncode) ==
    IF returncode # 0 THEN {} ELSE v_tree

\* Step 1 of validate_and_commit: without changed files the verdict is
\* success.
VsChangedFiles ==
    /\ v_pc = "status"
    /\ \E returncode \in {0, 1} :
          /\ v_query_failed' = (returncode # 0)
          /\ IF get_changed_files(returncode) = {}
             THEN /\ v_result' = [returned |-> TRUE, success |-> TRUE,
                                  errors |-> "none"]
                  /\ v_pc' = "verdict"
             ELSE /\ v_pc' = IF "a.py" \in get_changed_files(returncode)
                             THEN "syntax" ELSE "tests"
                  /\ UNCHANGED v_result
    /\ UNCHANGED <<v_tree, v_commit, v_worker, v_status, v_agent_tree>>
    /\ UNCHANGED besideValidation

\* Steps 2 and 3: the syntax check of the Python files, then the tests; a
\* failure is written to the task's notes.
VsChecks ==
    /\ v_pc \in {"syntax", "tests"}
    /\ \E ok \in BOOLEAN :
          IF ok
          THEN /\ v_pc' = IF v_pc = "syntax" THEN "tests" ELSE "agent"
               /\ UNCHANGED <<v_tree, v_result>>
          ELSE /\ v_result' = [returned |-> TRUE, success |-> FALSE,
                               errors |-> v_pc]
               /\ v_tree' = v_tree \cup {"tasks.json"}
               /\ v_pc' = "verdict"
    /\ UNCHANGED <<v_commit, v_worker, v_status, v_query_failed, v_agent_tree>>
    /\ UNCHANGED besideValidation

\* What the agent of _generate_and_commit answers: the call fails or times
\* out, VALIDATION_FAILED, or a text with or without a commit message.
AgentAnswers == {"call failed", "VALIDATION_FAILED", "message"}

\* Step 4: the agent runs in the workspace; it may commit every change
\* itself or leave the tree as it is.  VALIDATION_FAILED is written to the
\* notes and ends the validation, every other answer goes on to _do_commit.
VsAgent ==
    /\ v_pc = "agent"
    /\ \E answer \in AgentAnswers, tree \in {v_tree, {}} :
          /\ v_agent_tree' = <<tree>>
          /\ IF answer = "VALIDATION_FAILED"
             THEN /\ v_tree' = tree \cup {"tasks.json"}
                  /\ v_result' = [returned |-> TRUE, success |-> FALSE,
                                  errors |-> "commit"]
                  /\ v_pc' = "verdict"
             ELSE /\ v_tree' = tree
                  /\ v_pc' = "commit"
                  /\ UNCHANGED v_result
    /\ UNCHANGED <<v_commit, v_worker, v_status, v_query_failed>>
    /\ UNCHANGED besideValidation

\* git commit after git add -A: non-zero when there is nothing to commit
\* or when git fails.
git_commit(tree, fails) == IF tree = {} \/ fails THEN 1 ELSE 0

\* _do_commit and the end of validate_and_commit: a commit message means
\* success and clear_notes, None means the notes are written and the
\* verdict is a failure.
VsCommit ==
    /\ v_pc = "commit"
    /\ \E fails \in BOOLEAN :
          IF git_commit(v_tree, fails) = 0
          THEN /\ \E had_notes \in BOOLEAN :
                     v_tree' = IF had_notes THEN {"tasks.json"} ELSE {}
               /\ v_result' = [returned |-> TRUE, success |-> TRUE,
                               errors |-> "none"]
          ELSE /\ v_tree' = v_tree \cup {"tasks.json"}
               /\ v_result' = [returned |-> TRUE, success |-> FALSE,
                               errors |-> "commit"]
    /\ v_pc' = "verdict"
    /\ UNCHANGED <<v_commit, v_worker, v_status, v_query_failed, v_agent_tree>>
    /\ UNCHANGED besideValidation

\* _finalize_worker on the verdict: success marks the task completed and
\* saves tasks.json, a failure goes to the orchestrator.
VsFinalize ==
    /\ v_pc = "verdict"
    /\ IF v_result.success
       THEN /\ v_status' = COMPLETED
            /\ v_tree' = v_tree \cup {"tasks.json"}
            /\ v_pc' = "completed"
       ELSE /\ v_pc' = "orchestrate"
            /\ UNCHANGED <<v_status, v_tree>>
    /\ UNCHANGED <<v_commit, v_worker, v_query_failed, v_agent_tree, v_result>>
    /\ UNCHANGED besideValidation

\* ------------------------------------------------------ a task's iteration
\* The iterations of the run loop statement by statement, with the checks
\* numbered as check_count numbers them.  Whether CHECK_INTERVAL has passed
\* at the gate is left open.
InitLoop ==
    /\ sl_pc = "pick"
    /\ sl_task = 0
    /\ sl_commit = 0
    /\ sl_worker = "none"
    /\ sl_check_count = 0
    /\ sl_thread = 0
    /\ sl_threads = {}
    /\ sl_queue = <<>>
    /\ sl_consumed = <<>>
    /\ sl_saved = 0

\* A queue whose get_nowait returns the newest item first.
queue_put_front(queue, item) == <<item>> \o queue
\* Queue.put: the item goes to the tail, get_nowait takes the head.
queue_put(queue, item) == Append(queue, item)

\* supervisor_thread is not None and supervisor_thread.is_alive().
sl_thread_alive ==
    sl_thread # 0 /\ [task |-> sl_task, check |-> sl_thread] \in sl_threads

\* get_next_task returns a task and _get_last_good_commit is recorded.
SlSnapshot ==
    /\ sl_pc = "pick"
    /\ sl_task < MaxStarts
    /\ sl_task' = sl_task + 1
    /\ sl_commit' = sl_task + 1
    /\ sl_pc' = "snapshot"
    /\ UNCHANGED <<sl_worker, sl_check_count, sl_thread, sl_threads, sl_queue,
                   sl_consumed, sl_saved>>
    /\ UNCHANGED besideLoop

\* The worker is started, the task marked in_progress and the locals of the
\* supervision loop are initialised: a new queue, no thread.
SlStartWorker ==
    /\ sl_pc = "snapshot"
    /\ sl_worker' = "alive"
    /\ sl_check_count' = 0
    /\ sl_thread' = 0
    /\ sl_queue' = <<>>
    /\ sl_consumed' = <<>>
    /\ sl_pc' = "top"
    /\ UNCHANGED <<sl_task, sl_commit, sl_threads, sl_saved>>
    /\ UNCHANGED besideLoop

\* The worker process ends by itself.
SlWorkerExits ==
    /\ sl_worker = "alive"
    /\ sl_pc \in {"top", "drain", "gate"}
    /\ sl_worker' = "exited"
    /\ UNCHANGED <<sl_pc, sl_task, sl_commit, sl_check_count, sl_thread,
                   sl_threads, sl_queue, sl_consumed, sl_saved>>
    /\ UNCHANGED besideLoop

\* `while worker.is_alive():` with the sleep and the display of new events;
\* a worker that has ended leads to `if not decision_made:`.
SlTop ==
    /\ sl_pc = "top"
    /\ sl_pc' = IF sl_worker = "alive" THEN "drain" ELSE "finalize"
    /\ UNCHANGED <<sl_task, sl_commit, sl_worker, sl_check_count, sl_thread,
                   sl_threads, sl_queue, sl_consumed, sl_saved>>
    /\ UNCHANGED besideLoop

\* get_nowait returns a result whose decision is continue.
SlDrainContinue ==
    /\ sl_pc = "drain"
    /\ sl_queue # <<>>
    /\ Head(sl_queue).decision = "continue"
    /\ sl_consumed' = Append(sl_consumed, Head(sl_queue).check)
    /\ sl_queue' = Tail(sl_queue)
    /\ UNCHANGED <<sl_pc, sl_task, sl_commit, sl_worker, sl_check_count,
                   sl_thread, sl_threads, sl_saved>>
    /\ UNCHANGED besideLoop

\* get_nowait returns any other result: _handle_supervisor_decision shuts
\* the worker down and saves the notes and the status, decision_made ends
\* the supervision loop.
SlDrainDecision ==
    /\ sl_pc = "drain"
    /\ sl_queue # <<>>
    /\ Head(sl_queue).decision # "continue"
    /\ sl_consumed' = Append(sl_consumed, Head(sl_queue).check)
    /\ sl_queue' = Tail(sl_queue)
    /\ sl_worker' = "exited"
    /\ sl_saved' = sl_task
    /\ sl_pc' = "pick"
    /\ UNCHANGED <<sl_task, sl_commit, sl_check_count, sl_thread, sl_threads>>
    /\ UNCHANGED besideLoop

\* get_nowait raises Empty.
SlDrainEmpty ==
    /\ sl_pc = "drain"
    /\ sl_queue = <<>>
    /\ sl_pc' = "gate"
    /\ UNCHANGED <<sl_task, sl_commit, sl_worker, sl_check_count, sl_thread,
                   sl_threads, sl_queue, sl_consumed, sl_saved>>
    /\ UNCHANGED besideLoop

\* The gate is closed: it is not yet time, or the thread is alive.
SlGateClosed ==
    /\ sl_pc = "gate"
    /\ sl_pc' = "top"
    /\ UNCHANGED <<sl_task, sl_commit, sl_worker, sl_check_count, sl_thread,
                   sl_threads, sl_queue, sl_consumed, sl_saved>>
    /\ UNCHANGED besideLoop

\* CHECK_INTERVAL has passed and no thread is alive: the next check is
\* numbered and its thread started.
SlStartCheck ==
    /\ sl_pc = "gate"
    /\ ~sl_thread_alive
    /\ sl_check_count < MaxChecks
    /\ sl_check_count' = sl_check_count + 1
    /\ sl_thread' = sl_check_count + 1
    /\ sl_threads' = sl_threads \cup
           {[task |-> sl_task, check |-> sl_check_count + 1]}
    /\ sl_pc' = "top"
    /\ UNCHANGED <<sl_task, sl_commit, sl_worker, sl_queue, sl_consumed,
                   sl_saved>>
    /\ UNCHANGED besideLoop

\* run_supervisor: analyze returns and the result is put into the queue the
\* thread was given, which is the loop's queue while its task is current.
SlThreadPuts ==
    /\ \E th \in sl_threads, d \in {"continue", "orchestrate"} :
          /\ sl_threads' = sl_threads \ {th}
          /\ sl_queue' = IF th.task = sl_task
                         THEN queue_put(sl_queue,
                                        [check |-> th.check, decision |-> d])
                         ELSE sl_queue
    /\ UNCHANGED <<sl_pc, sl_task, sl_commit, sl_worker, sl_check_count,
                   sl_thread, sl_consumed, sl_saved>>
    /\ UNCHANGED besideLoop

\* The worker has ended by itself: _finalize_worker returns after the
\* task's status or notes are saved.
SlFinalize ==
    /\ sl_pc = "finalize"
    /\ sl_saved' = sl_task
    /\ sl_pc' = "pick"
    /\ UNCHANGED <<sl_task, sl_commit, sl_worker, sl_check_count, sl_thread,
                   sl_threads, sl_queue, sl_consumed>>
    /\ UNCHANGED besideLoop

\* ------------------------------------------------------ one orchestrate call
\* tasks.json as _validate_tasks reads it: text that does not parse, a
\* JSON object, or an array of entries; an entry has or lacks the keys
\* "id" and "description".
FileEntries ==
    { [has_id |-> TRUE,  id |-> 1, has_description |-> TRUE],
      [has_id |-> TRUE,  id |-> 2, has_description |-> TRUE],
      [has_id |-> TRUE,  id |-> 1, has_description |-> FALSE],
      [has_id |-> FALSE, id |-> 0, has_description |-> TRUE] }

FileTexts ==
    { [form |-> "malformed", entries |-> <<>>],
      [form |-> "object", entries |-> <<>>] }
    \cup { [form |-> "array", entries |-> es] :
              es \in UNION { [1..n -> FileEntries] : n \in 0..MaxTasks } }

\* What the stream of one agent invocation gives _call_claude's caller:
\* None (the call failed), text without the token, or text holding it.
AgentOutputs == {"None", "text", "token"}

\* tasks.json when orchestrate is called: the engine's own file, or one
\* that was damaged by hand.
CalledOnFiles == {f \in FileTexts : Len(f.entries) <= 1}

InitCall ==
    /\ or_pc = "called"
    /\ or_file \in CalledOnFiles
    /\ or_backup = <<>>
    /\ or_backups = 0
    /\ or_attempts = 0
    /\ or_reviews = 0
    /\ or_done = FALSE
    /\ or_passed = FALSE
    /\ or_committed = FALSE
    /\ or_result = NoOutcome

\* A validation that accepts every file.
validate_tasks_any(file) == TRUE

\* Orchestrator._validate_tasks.
validate_tasks(file) ==
    IF file.form # "array" THEN FALSE
    ELSE LET data == file.entries
             ids == SelectSeq(data, LAMBDA t : t.has_id)
             idset == { ids[i].id : i \in DOMAIN ids }
         IN IF Len(ids) # Cardinality(idset) THEN FALSE
            ELSE \A i \in DOMAIN data :
                    data[i].has_id /\ data[i].has_description

\* Attempt loops that never run out.
attempts_left_always(made, limit) == TRUE

\* `for attempt in range(limit)`: another iteration is left.
attempts_left(made, limit) == made < limit

\* _restore_backup writes the backup over tasks.json.
restore_backup(file) == IF or_backup = <<>> THEN file ELSE or_backup[1]

\* orchestrate, line 56: backup = self._backup_tasks().
OrBackup ==
    /\ or_pc = "called"
    /\ or_backup' = <<or_file>>
    /\ or_backups' = or_backups + 1
    /\ or_pc' = "orchestrating"
    /\ UNCHANGED <<or_file, or_attempts, or_reviews, or_done, or_passed,
                   or_committed, or_result>>
    /\ UNCHANGED besideCall

\* One iteration of the orchestration loop: the agent is invoked, may
\* rewrite tasks.json, and its output is looked at.
OrAttempt ==
    /\ or_pc = "orchestrating"
    /\ attempts_left(or_attempts, max_orchestration_attempts)
    /\ or_attempts' = or_attempts + 1
    /\ \E out \in AgentOutputs, edited \in FileTexts :
          IF out = "token"
          THEN /\ or_done' = TRUE
               /\ or_file' = edited
               /\ or_pc' = "reviewing"
               /\ UNCHANGED or_result
          ELSE /\ UNCHANGED or_done
               /\ IF attempts_left(or_attempts', max_orchestration_attempts)
                  THEN /\ or_file' = edited
                       /\ UNCHANGED <<or_pc, or_result>>
                  ELSE /\ or_file' = restore_backup(edited)
                       /\ or_pc' = "returned"
                       /\ or_result' = [returned |-> TRUE, success |-> FALSE]
    /\ UNCHANGED <<or_backup, or_backups, or_reviews, or_passed, or_committed>>
    /\ UNCHANGED besideCall

\* One iteration of the review loop.
OrReview ==
    /\ or_pc = "reviewing"
    /\ attempts_left(or_reviews, max_review_attempts)
    /\ or_reviews' = or_reviews + 1
    /\ \E out \in AgentOutputs, edited \in FileTexts :
          IF out = "token"
          THEN /\ or_passed' = TRUE
               /\ or_file' = edited
               /\ or_pc' = "validating"
               /\ UNCHANGED or_result
          ELSE /\ UNCHANGED or_passed
               /\ IF attempts_left(or_reviews', max_review_attempts)
                  THEN /\ or_file' = edited
                       /\ UNCHANGED <<or_pc, or_result>>
                  ELSE /\ or_file' = restore_backup(edited)
                       /\ or_pc' = "returned"
                       /\ or_result' = [returned |-> TRUE, success |-> FALSE]
    /\ UNCHANGED <<or_backup, or_backups, or_attempts, or_done, or_committed>>
    /\ UNCHANGED besideCall

\* if not self._validate_tasks(): restore and return failure.
OrValidate ==
    /\ or_pc = "validating"
    /\ IF validate_tasks(or_file)
       THEN /\ or_pc' = "committing"
            /\ UNCHANGED <<or_file, or_result>>
       ELSE /\ or_file' = restore_backup(or_file)
            /\ or_pc' = "returned"
            /\ or_result' = [returned |-> TRUE, success |-> FALSE]
    /\ UNCHANGED <<or_backup, or_backups, or_attempts, or_reviews, or_done,
                   or_passed, or_committed>>
    /\ UNCHANGED besideCall

\* commit_success = self._commit_tasks(trigger); success either way.
OrCommit ==
    /\ or_pc = "committing"
    /\ or_committed' = TRUE
    /\ or_pc' = "returned"
    /\ or_result' = [returned |-> TRUE, success |-> TRUE]
    /\ UNCHANGED <<or_file, or_backup, or_backups, or_attempts, or_reviews,
                   or_done, or_passed>>
    /\ UNCHANGED besideCall

\* ------------------------------------------------------- one terminate call
InitTerminate ==
    /\ tm_pc = "called"
    /\ tm_graceful \in BOOLEAN
    /\ tm_entry \in {"alive", "exited"}
    /\ tm_worker = tm_entry
    /\ tm_signals = <<>>
    /\ tm_ticks = 0

\* The worker process ends, by itself or on a signal.
TmWorkerExits ==
    /\ tm_pc \notin {"none", "returned"}
    /\ tm_worker = "alive"
    /\ tm_worker' = "exited"
    /\ UNCHANGED <<tm_pc, tm_graceful, tm_entry, tm_signals, tm_ticks>>
    /\ UNCHANGED besideTerminate

\* `if self.process is None or not self.is_alive(): return True`, then
\* the process group id is looked up.
TmCheck ==
    /\ tm_pc = "called"
    /\ tm_pc' = IF tm_worker = "alive" THEN "signal" ELSE "returned"
    /\ UNCHANGED <<tm_graceful, tm_entry, tm_worker, tm_signals, tm_ticks>>
    /\ UNCHANGED besideTerminate

\* os.killpg(pgid, SIGINT) and into the wait loop when graceful, else
\* os.killpg(pgid, SIGKILL) and return.
TmSignal ==
    /\ tm_pc = "signal"
    /\ IF tm_graceful
       THEN /\ tm_signals' = Append(tm_signals, "SIGINT")
            /\ tm_pc' = "waiting"
       ELSE /\ tm_signals' = Append(tm_signals, "SIGKILL")
            /\ tm_pc' = "returned"
    /\ UNCHANGED <<tm_graceful, tm_entry, tm_worker, tm_ticks>>
    /\ UNCHANGED besideTerminate

\* One iteration of `for _ in range(50)`: return when the process is
\* gone, else sleep 0.1 s.
TmTick ==
    /\ tm_pc = "waiting"
    /\ tm_ticks < TERMINATE_WAIT_TICKS
    /\ IF tm_worker = "alive"
       THEN tm_ticks' = tm_ticks + 1 /\ tm_pc' = tm_pc
       ELSE tm_ticks' = tm_ticks /\ tm_pc' = "returned"
    /\ UNCHANGED <<tm_graceful, tm_entry, tm_worker, tm_signals>>
    /\ UNCHANGED besideTerminate

\* The loop ran out: os.killpg(pgid, SIGKILL), then return True.
TmKill ==
    /\ tm_pc = "waiting"
    /\ tm_ticks = TERMINATE_WAIT_TICKS
    /\ tm_signals' = Append(tm_signals, "SIGKILL")
    /\ tm_pc' = "returned"
    /\ UNCHANGED <<tm_graceful, tm_entry, tm_worker, tm_ticks>>
    /\ UNCHANGED besideTerminate

\* ------------------------------------------------------ agent output lines
\* A line of stream-json output: blank, an event object the parsers know,
\* another JSON object, JSON that is not an object (null, a number, an
\* array), text that is not JSON, or a final line cut short.
LineKinds == {"blank", "event", "object", "scalar", "garbage", "cut"}

OutputLines ==
    { ls \in UNION { [1..n -> LineKinds] : n \in 0..MaxLogLen } :
        \A i \in DOMAIN ls : ls[i] = "cut" => i = Len(ls) }

\* The loop shared by run_claude and read_log: strip, skip blank lines,
\* json.loads with JSONDecodeError caught around the line, then the
\* parser, whose event.get raises AttributeError on a value that is not
\* an object; that exception leaves the loop.  Events are named by their
\* line numbers.
RECURSIVE decode_lines(_, _, _)
decode_lines(lines, i, events) ==
    IF i > Len(lines) THEN [events |-> events, raised |-> FALSE]
    ELSE IF lines[i] = "blank" THEN decode_lines(lines, i + 1, events)
    ELSE IF lines[i] \in {"garbage", "cut"}
         THEN decode_lines(lines, i + 1, events)
    ELSE IF lines[i] = "scalar" THEN [events |-> events, raised |-> TRUE]
    ELSE IF lines[i] = "event"
         THEN decode_lines(lines, i + 1, Append(events, i))
    ELSE decode_lines(lines, i + 1, events)

\* run_claude: `except Exception` sets is_error on the result.
run_claude(lines) ==
    LET r == decode_lines(lines, 1, <<>>)
    IN [events |-> r.events, is_error |-> r.raised]

\* WorkerProcess.read_log: `except Exception: pass`.
read_log(lines) ==
    LET r == decode_lines(lines, 1, <<>>)
    IN [events |-> r.events, is_error |-> FALSE]

InitReader ==
    /\ rd_pc = "ready"
    /\ rd_lines \in OutputLines
    /\ rd_result = [events |-> <<>>, is_error |-> FALSE]

\* The foreground runner goes over the agent's output.
RdRunClaude ==
    /\ rd_pc = "ready"
    /\ rd_result' = run_claude(rd_lines)
    /\ rd_pc' = "run_claude"
    /\ UNCHANGED rd_lines
    /\ UNCHANGED besideReader

\* The Worker reads its log file.
RdReadLog ==
    /\ rd_pc = "ready"
    /\ rd_result' = read_log(rd_lines)
    /\ rd_pc' = "read_log"
    /\ UNCHANGED rd_lines
    /\ UNCHANGED besideReader

\* ------------------------------------------- a run whose orchestrator idles
\* The run loop with an orchestrator that returns, with or without
\* success, leaving tasks.json as it was.  The tasks are numbered in the
\* order of their ids.
InitRun ==
    /\ rs_pc = "loop"
    /\ rs_status \in [1..MaxTasks -> {PENDING, IN_PROGRESS, COMPLETED, FAILED}]
    /\ rs_task = 0
    /\ rs_retries = 0
    /\ rs_processed = 0
    /\ rs_max_tasks \in 0..MaxStarts

\* `max_tasks and tasks_processed >= max_tasks`.
limit_reached == rs_max_tasks # 0 /\ rs_processed >= rs_max_tasks

rs_has_failed == \E t \in DOMAIN rs_status : rs_status[t] = FAILED

rs_eligible == {t \in DOMAIN rs_status : rs_status[t] \in {PENDING, IN_PROGRESS}}

\* tasks_processed += 1 at the end of an iteration.
rs_count == IF rs_processed < MaxStarts THEN rs_processed + 1 ELSE rs_processed

\* The loop head breaks on the max-tasks limit.
RsLimit ==
    /\ rs_pc = "loop"
    /\ limit_reached
    /\ rs_pc' = "stopped"
    /\ UNCHANGED <<rs_status, rs_task, rs_retries, rs_processed, rs_max_tasks>>
    /\ UNCHANGED besideRestart

\* Failed tasks and the retries used up: break.
RsGiveUp ==
    /\ rs_pc = "loop"
    /\ ~limit_reached
    /\ rs_has_failed
    /\ retries_exhausted(rs_retries)
    /\ rs_pc' = "stopped"
    /\ UNCHANGED <<rs_status, rs_task, rs_retries, rs_processed, rs_max_tasks>>
    /\ UNCHANGED besideRestart

\* Failed tasks: the retry is counted, the orchestrator runs and leaves
\* the list as it was, the list is loaded again, continue.
RsRetry ==
    /\ rs_pc = "loop"
    /\ ~limit_reached
    /\ rs_has_failed
    /\ ~retries_exhausted(rs_retries)
    /\ rs_retries' = rs_retries + 1
    /\ UNCHANGED <<rs_pc, rs_status, rs_task, rs_processed, rs_max_tasks>>
    /\ UNCHANGED besideRestart

\* No failed task and no pending or in-progress task: break.
RsAllDone ==
    /\ rs_pc = "loop"
    /\ ~limit_reached
    /\ ~rs_has_failed
    /\ rs_eligible = {}
    /\ rs_pc' = "stopped"
    /\ rs_retries' = 0
    /\ UNCHANGED <<rs_status, rs_task, rs_processed, rs_max_tasks>>
    /\ UNCHANGED besideRestart

\* No failed task: the counter is reset, the first pending or in-progress
\* task is taken, its worker started and the task marked in progress.
RsStart ==
    /\ rs_pc = "loop"
    /\ ~limit_reached
    /\ ~rs_has_failed
    /\ rs_eligible # {}
    /\ rs_retries' = 0
    /\ rs_task' = CHOOSE t \in rs_eligible : \A u \in rs_eligible : t <= u
    /\ rs_status' = [rs_status EXCEPT ![rs_task'] = IN_PROGRESS]
    /\ rs_pc' = "working"
    /\ UNCHANGED <<rs_processed, rs_max_tasks>>
    /\ UNCHANGED besideRestart

\* The worker process exits.
RsWorkerExits ==
    /\ rs_pc = "working"
    /\ rs_pc' = "exited"
    /\ UNCHANGED <<rs_status, rs_task, rs_retries, rs_processed, rs_max_tasks>>
    /\ UNCHANGED besideRestart

\* The Supervisor decides orchestrate: the worker is shut down and the
\* orchestrator called; the task is marked failed when it reports failure.
RsDecision ==
    /\ rs_pc = "working"
    /\ \E success \in BOOLEAN :
          rs_status' = IF success THEN rs_status
                       ELSE [rs_status EXCEPT ![rs_task] = FAILED]
    /\ rs_processed' = rs_count
    /\ rs_pc' = "loop"
    /\ UNCHANGED <<rs_task, rs_retries, rs_max_tasks>>
    /\ UNCHANGED besideRestart

\* _finalize_worker: an error Result marks the task failed, a passed
\* validation marks it completed, a failed validation calls the
\* orchestrator and loads the list again.
RsFinalize ==
    /\ rs_pc = "exited"
    /\ \E outcome \in {"error", "passed", "rejected"} :
          rs_status' =
              CASE outcome = "error" -> [rs_status EXCEPT ![rs_task] = FAILED]
                [] outcome = "passed" -> [rs_status EXCEPT ![rs_task] = COMPLETED]
                [] OTHER -> rs_status
    /\ rs_processed' = rs_count
    /\ rs_pc' = "loop"
    /\ UNCHANGED <<rs_task, rs_retries, rs_max_tasks>>
    /\ UNCHANGED besideRestart

\* ------------------------------------------------------------- properties

InProgress(tasks) == {t \in DOMAIN tasks : tasks[t].status = IN_PROGRESS}

\* C1: in every reachable state at most one task of the list has status
\* in_progress, in the file as in the engine's list.
C1_AtMostOneInProgress ==
    /\ Cardinality(InProgress(disk)) <= 1
    /\ Cardinality(InProgress(mem)) <= 1

AfterOrchPcs == {"after_orch_loop", "after_orch_decide", "after_orch_final"}

\* C2: when orchestrate has returned success=false, tasks.json on disk is
\* what it was when orchestrate was called (the backup it took), engine
\* writes that were not committed included.
C2_FailureRestoresFile ==
    (pc \in AfterOrchPcs /\ ~orch_result.success) => disk = orch_backup[1]

\* C3: whenever the run loop is back at its head, the engine's list is the
\* list on disk: after an orchestrator invocation the list was reloaded, so
\* next() sees the orchestrator's edits and no later save overwrites them.
C3_ReloadedAtLoopHead == pc = "loop" => mem = disk

\* C4: a task that tasks.json records as completed is recorded as completed
\* after every step of the engine.
C4_CompletedIsFrozen ==
    [][\A t \in DOMAIN disk :
          disk[t].status = COMPLETED
              => t \in DOMAIN disk' /\ disk'[t].status = COMPLETED]_vars

\* A step in which the TaskManager's list is neither loaded nor discarded.
ListKept == pc \notin {"idle", "after_orch_loop", "after_orch_final"}
            /\ pc' # "idle"

\* C5: every status change the run loop makes in its list follows
\* pending -> in_progress -> {completed, failed}: completed and failed are
\* only set on an in_progress task, mark_in_progress is only applied to a
\* pending or in_progress task, and no failed task is moved to pending.
C5_Lifecycle ==
    [][ListKept =>
          /\ \A t \in DOMAIN mem :
                /\ t \in DOMAIN mem'
                /\ mem'[t].status # mem[t].status =>
                      \/ mem[t].status = PENDING /\ mem'[t].status = IN_PROGRESS
                      \/ mem[t].status = IN_PROGRESS
                         /\ mem'[t].status \in {COMPLETED, FAILED}
          /\ (pc = "start" /\ pc' = "sv_top") =>
                /\ task \in DOMAIN mem
                /\ mem[task].status \in {PENDING, IN_PROGRESS}
                /\ mem'[task].status = IN_PROGRESS]_vars

\* A task was completed and another one failed in this run.
C5_Witness ==
    /\ pc = "loop"
    /\ \E t \in DOMAIN mem : mem[t].status = COMPLETED
    /\ \E t \in DOMAIN mem : mem[t].status = FAILED /\ mem[t].session_id # 0

\* C6: at most one supervisor analysis is running at any instant.
C6_OneAnalysisInFlight == Cardinality(sv_threads) <= 1

\* The sources whose ledger records stand for Result events.
ResultSources == {"worker", "worker_cleanup", "supervisor", "validator",
                  "orchestrator"}

\* C7: whenever the run loop is at its head or the run has ended, every
\* Result event with cost > 0 that an agent invocation produced has exactly
\* one ledger record.
C7_OneRecordPerResult ==
    pc \in {"loop", "idle"} => \A s \in ResultSources : unrecorded[s] = 0

\* C8: finalization of a worker whose Result is an error marks the task
\* failed, writes the result into its notes and returns to the loop head
\* without calling the validator or the orchestrator.
C8_ErrorResultFails ==
    [][(pc = "sv_top" /\ worker = "exited" /\ worker_log.result = "error"
        /\ pc' \notin {"sv_top", "idle"}) =>
          /\ pc' = "loop"
          /\ orch_backup' = <<>>
          /\ task \in DOMAIN mem' /\ task \in DOMAIN disk'
          /\ mem'[task].status = FAILED /\ disk'[task].status = FAILED
          /\ mem'[task].notes = "exec_failed"
          /\ disk'[task].notes = "exec_failed"]_vars

\* The engine is back at the loop head after a worker's error Result.
C8_Witness ==
    /\ pc = "loop"
    /\ ~current_worker
    /\ task \in DOMAIN disk
    /\ disk[task].status = FAILED
    /\ disk[task].error_message = "worker_error"
    /\ disk[task].notes = "exec_failed"

\* C9: when validate_and_commit returns a failure the engine calls
\* orchestrate from _finalize_worker, with the validator's errors noted,
\* and neither that step nor the return from orchestrate marks the task
\* failed.
C9_ValidatorFailureOrchestrates ==
    [][/\ (pc = "validate" /\ pc' \notin {"validate", "idle"}) =>
            /\ task \in DOMAIN mem'
            /\ \/ pc' = "loop" /\ mem'[task].status = COMPLETED
               \/ /\ pc' = "orch_final"
                  /\ orch_backup' = <<disk'>>
                  /\ mem'[task].status = mem[task].status
                  /\ mem'[task].status # FAILED
                  /\ disk'[task].status # FAILED
                  /\ mem'[task].notes = "validator_error"
       /\ (pc = "after_orch_final" /\ pc' # "after_orch_final") =>
            /\ pc' = "loop"
            /\ disk' = disk
            /\ mem' = disk]_vars

\* orchestrate is running for a validator failure.
C9_Witness ==
    /\ pc = "orch_final"
    /\ orch_backup # <<>>
    /\ task \in DOMAIN mem
    /\ mem[task].status = IN_PROGRESS
    /\ mem[task].notes = "validator_error"

\* C10: when orchestrate, called for a task by the supervisor decision or
\* by the validator failure, has returned success=false, the engine marks
\* that task failed before it returns to the loop head.
C10_OrchestrateFailureFailsTask ==
    [][(pc \in {"after_orch_decide", "after_orch_final"}
        /\ ~orch_result.success /\ pc' = "loop") =>
          /\ task \in DOMAIN mem'
          /\ mem'[task].status = FAILED
          /\ mem'[task].error_message = "orchestration_failed"]_vars

\* C11: while failed tasks remain the run loop calls orchestrate for them
\* at most 3 times in a row and then stops the run; within a run the retry
\* counter goes back to 0 only in an iteration that finds no failed task.
C11_FailedRetriesBounded ==
    [][/\ failed_task_retries' <= 3
       /\ (pc = "loop" /\ pc' = "orch_loop") =>
            /\ has_failed_tasks(mem)
            /\ failed_task_retries < 3
            /\ failed_task_retries' = failed_task_retries + 1
       /\ (pc = "loop" /\ has_failed_tasks(mem) /\ failed_task_retries >= 3
           /\ pc' # pc) => pc' = "idle"
       /\ (failed_task_retries' < failed_task_retries /\ pc' # "idle") =>
            /\ pc = "loop"
            /\ ~has_failed_tasks(mem)
            /\ failed_task_retries' = 0]_vars

\* The third orchestration in a row has left a failed task.
C11_Witness ==
    /\ pc = "loop"
    /\ has_failed_tasks(mem)
    /\ failed_task_retries = 3

\* C12: a user interrupt that finds no live worker (the worker has already
\* exited, or no worker is active) performs no reset: the uncommitted
\* changes of the working tree and HEAD are as before, apart from the notes
\* the handler writes for the current worker's task.
C12_ResetOnlyAfterFailedCleanup ==
    [][(pc \in InterruptiblePcs /\ pc' = "idle"
        /\ ~(current_worker /\ worker = "alive")) =>
          /\ head' = head
          /\ dirty' = dirty
          /\ disk' = IF current_worker
                     THEN Saved(update_notes(mem, task, "summary"), task, disk)
                     ELSE disk]_vars

\* C13: when a user interrupt of a task with a live worker has been handled
\* and the engine exits, tasks.json on disk holds that task with its notes
\* set to the handover summary or to the synthesized activity summary,
\* whether the cleanup succeeded or failed.
C13_HandoverNotesOnDisk ==
    [][(pc \in InterruptiblePcs /\ pc' = "idle"
        /\ current_worker /\ worker = "alive") =>
          /\ task \in DOMAIN disk'
          /\ disk'[task].notes \in {"handover", "summary"}]_vars

\* C15: whenever finalization turns a task's status into completed, the
\* task's notes are empty afterwards, in the engine's list and on disk,
\* whether the Validator committed or found nothing to commit.
C15_CompletedClearsNotes ==
    [][(pc = "validate" /\ pc' = "loop" /\ task \in DOMAIN mem') =>
          /\ mem'[task].status = COMPLETED
          /\ mem'[task].notes = "none"
          /\ disk'[task].notes = "none"]_vars

\* C16: a worker Result with is_error false whose text contains
\* TASK_BLOCKED: <reason> makes finalization mark the task failed, with the
\* reason in its notes, instead of calling the Validator.
C16_BlockedResultFails ==
    [][(pc = "sv_top" /\ worker = "exited" /\ worker_log.result = "blocked"
        /\ pc' \notin {"sv_top", "idle"}) =>
          /\ pc' = "loop"
          /\ mem'[task].status = FAILED
          /\ mem'[task].notes # mem[task].notes]_vars

IsObject(text, i, j) ==
    /\ i \in DOMAIN text /\ j \in DOMAIN text /\ i < j
    /\ text[i] = "{" /\ text[j] = "}"
    /\ \A k \in (i + 1)..(j - 1) : text[k] \in Members

HasObject(text) == \E i, j \in DOMAIN text : IsObject(text, i, j)

FirstObject(text) ==
    CHOOSE o \in (DOMAIN text) \X (DOMAIN text) :
        /\ IsObject(text, o[1], o[2])
        /\ \A i, j \in DOMAIN text : IsObject(text, i, j) => o[1] <= i

\* The value of the decision member of an object, "absent" without one.
ObjectDecision(text, o) ==
    LET ks == {k \in (o[1] + 1)..(o[2] - 1) : text[k] \in DecisionTokens}
    IN  IF ks = {} THEN "absent"
        ELSE text[CHOOSE k \in ks : \A j \in ks : j <= k]

\* C17: the decision is continue whenever the agent call timed out or
\* raised, the response holds no well-formed JSON object, or the decision of
\* its object is a string the Supervisor does not recognise (one that is not
\* a key of its decision map) or no string at all; such a decision is never
\* handed to the decision handler.
C17_BadResponseContinues ==
    (/\ sv_decision # "none"
     /\ \/ sv_call \in {"timeout", "raised"}
        \/ ~HasObject(response)
        \/ ObjectDecision(response, FirstObject(response))
              \in {"orchestrate", "other", "nonstring"})
    => /\ sv_decision = "continue"
       /\ sv_dispatch # "handled"

\* A response whose object names an unknown decision has been analysed and
\* its result printed.
C17_Witness ==
    /\ sv_call = "returned"
    /\ HasObject(response)
    /\ ObjectDecision(response, FirstObject(response)) = "other"
    /\ sv_decision = "continue"
    /\ sv_dispatch = "printed"

\* C18: when the response holds a well-formed JSON object whose decision is
\* continue or orchestrate, the decision returned is that of the first such
\* object, whatever follows it, and an orchestrate decision is handed to the
\* decision handler.
C18_FirstObjectWins ==
    (/\ sv_decision # "none"
     /\ sv_call = "returned"
     /\ HasObject(response)
     /\ ObjectDecision(response, FirstObject(response))
           \in {"continue", "orchestrate"})
    => /\ sv_decision = ObjectDecision(response, FirstObject(response))
       /\ sv_dispatch # "none" =>
             (sv_dispatch = "handled") = (sv_decision = "orchestrate")

\* C14: a second user interrupt that arrives while graceful_shutdown waits
\* for its cleanup child kills what is still running: when the engine has
\* exited on it, the cleanup child is not running and the worker is dead.
C14_SecondInterruptKills ==
    [][(gs_pc = "cleanup" /\ gs_cleanup = "running" /\ gs_pc' = "exited") =>
          /\ gs_cleanup' # "running"
          /\ gs_worker' = "dead"]_vars

\* C20: graceful_shutdown returns success=false, without a handover
\* summary and without having started a cleanup child, whenever the log
\* gave no session id; and whenever it returns, a worker found alive has
\* been sent SIGINT, one still alive after the wait SIGKILL, in this order,
\* and the worker is dead.
C20_NoSessionNoCleanup ==
    [][/\ (gs_pc # "returned" /\ gs_pc' = "returned") =>
            /\ ~gs_session =>
                  /\ gs_result'.success = FALSE
                  /\ gs_result'.handover_summary = FALSE
                  /\ gs_cleanup' = "none"
            /\ gs_worker' = "dead"
            /\ gs_signals' \in {<<>>, <<"SIGINT">>, <<"SIGINT", "SIGKILL">>}
       /\ (gs_pc = "called" /\ gs_worker = "alive" /\ gs_pc' # gs_pc) =>
            gs_signals' = <<"SIGINT">>
       /\ (gs_pc = "waited" /\ gs_worker = "alive" /\ gs_pc' # gs_pc) =>
            gs_signals' = <<"SIGINT", "SIGKILL">>]_vars

\* graceful_shutdown has returned for a worker without a session id that
\* had to be killed.
C20_Witness ==
    /\ gs_pc = "returned"
    /\ ~gs_session
    /\ gs_signals = <<"SIGINT", "SIGKILL">>
    /\ gs_result = CleanupResult

\* C21: a call of graceful_shutdown on a WorkerProcess on which an earlier
\* call has completed starts no cleanup child, sends no signal and returns
\* what the first call returned.
C21_ShutdownIdempotent ==
    [][gs_calls >= 2 =>
          /\ gs_cleanup' = "running" => gs_cleanup = "running"
          /\ gs_signals' = gs_signals
          /\ (gs_pc # "returned" /\ gs_pc' = "returned") =>
                gs_result' = gs_first[1]]_vars

\* C22: a read_new_events call that follows another with no write to the log
\* in between returns no events, and no step lowers the stored position.
C22_SecondReadEmpty ==
    [][/\ (log_reads = 1 /\ log_reads' = 2) => new_events' = <<>>
       /\ last_log_position' >= last_log_position]_vars

\* The two lists hold the same tasks the same number of times.
SameTasks(a, b) ==
    \A t \in {a[i] : i \in DOMAIN a} \cup {b[i] : i \in DOMAIN b} :
        Cardinality({i \in DOMAIN a : a[i] = t}) =
        Cardinality({i \in DOMAIN b : b[i] = t})

\* C23: a saved task list loads without failure to the same tasks, equal in
\* all seven fields, whatever the order; this also when the file was put in
\* the {"tasks": [...]} form or its tasks were given a key that is no field.
C23_SaveLoadRoundTrip ==
    st_pc = "loaded" =>
        /\ ~st_loaded.raised
        /\ SameTasks(st_loaded.tasks, st_tasks)

\* A list of two tasks that save_tasks reorders was loaded from the object
\* form with an unknown key on its tasks.
C23_Witness ==
    /\ st_pc = "loaded"
    /\ Len(st_tasks) = 2
    /\ sorted(st_tasks) # st_tasks
    /\ st_file.form = "object"
    /\ "priority" \in DOMAIN st_file.tasks[1]
    /\ st_tasks[1].notes # None

\* Id a comes before id b in DFS pre-order: at the first segment where they
\* differ a's integer is the smaller, or a is a proper prefix of b.
PreOrderBefore(a, b) ==
    \E k \in 1..Len(b) :
        /\ \A j \in 1..(k - 1) : j <= Len(a) /\ int(a[j]) = int(b[j])
        /\ k > Len(a) \/ (k <= Len(a) /\ int(a[k]) < int(b[k]))

EligibleIn(tasks) ==
    {tasks[i] : i \in {j \in DOMAIN tasks :
                          tasks[j].status \in {PENDING, IN_PROGRESS}}}

\* C24: get_next_task returns None exactly when no task is pending or
\* in_progress, and otherwise a pending or in_progress task before whose
\* id, in DFS pre-order with integer segments, no such task's id comes.
C24_NextIsLeastEligible ==
    st_pc = "asked" =>
        /\ next_task = <<>> <=> EligibleIn(st_tasks) = {}
        /\ next_task # <<>> =>
              /\ next_task[1] \in EligibleIn(st_tasks)
              /\ \A t \in EligibleIn(st_tasks) :
                    ~PreOrderBefore(t.id, next_task[1].id)

\* "2.1.9" was returned from a list that holds "2.1.10" before it.
C24_Witness ==
    /\ st_pc = "asked"
    /\ Len(st_tasks) = 2
    /\ st_tasks[1].id = << <<2>>, <<1>>, <<1, 0>> >>
    /\ st_tasks[1].status = PENDING
    /\ next_task = <<st_tasks[2]>>
    /\ next_task[1].id = << <<2>>, <<1>>, <<9>> >>

\* C25: once the engine has dealt with a worker that ended, the ledger holds
\* exactly one worker record for it when its log had a Result with a cost
\* or, without one, assistant usage (that record being an estimate).
C25_WorkerCostRecorded ==
    pc \in {"validate"} \cup OrchPcs =>
        /\ unrecorded["worker"] = 0
        /\ unrecorded["worker_estimated"] = 0

\* C26: when the run loop leaves the supervision of a worker that has ended
\* by itself with a Result that is no error, it goes to the Validator
\* (unless the user interrupts the engine).
C26_ExitedWorkerIsValidated ==
    [][(/\ Supervising
        /\ worker = "exited"
        /\ worker_log.result \in {"ok", "blocked"}
        /\ ~Supervising'
        /\ pc' # "idle") => pc' = "validate"]_vars

C28_GitFailureFailsStep ==
    /\ v_worker # "none" => v_commit # NoCommit
    /\ v_query_failed =>
          /\ v_result.returned => ~v_result.success
          /\ v_status # COMPLETED

\* C30: whenever the worker process of a task is alive, tasks.json holds the
\* task as in_progress.
C30_AliveWorkerIsInProgress ==
    v_worker = "alive" => v_status = IN_PROGRESS

\* C29: a validation that has invoked its agent reports success when the
\* tree was clean after the invocation, and reports success only when no
\* file but the tasks.json it wrote itself is left uncommitted.
C29_VerdictFollowsTree ==
    (v_pc = "verdict" /\ v_agent_tree # <<>>) =>
        /\ v_agent_tree[1] = {} => v_result.success
        /\ v_result.success => v_tree \subseteq {"tasks.json"}

C37_QueueHoldsAtMostOne ==
    Len(sl_queue) <= 1

\* C32: one orchestrate call invokes the orchestration agent at most 3
\* times and the review agent at most 3 times, and has returned once a
\* loop is exhausted; an orchestration attempt after the first is made
\* only while no output has held ORCHESTRATION_DONE; the backup of
\* tasks.json is taken exactly once, and before the first attempt.
C32_BoundedAttempts ==
    [][/\ or_attempts' <= 3 /\ or_reviews' <= 3
       /\ or_attempts' + or_reviews' <= 6
       /\ or_attempts' > or_attempts =>
             ~or_done /\ or_backups = 1 /\ or_attempts' = or_attempts + 1
       /\ or_reviews' > or_reviews => or_backups = 1
       /\ or_backups' > or_backups => or_backups = 0 /\ or_attempts = 0
       /\ or_result.returned =>
             /\ or_attempts' = or_attempts
             /\ or_reviews' = or_reviews
             /\ or_result' = or_result
       /\ (or_attempts' = 3 /\ ~or_done') => or_result'.returned
       /\ (or_reviews' = 3 /\ ~or_passed') => or_result'.returned]_vars

\* C32 witness: both loops ran out and the call returned after 6 invocations.
C32_Witness ==
    /\ or_result.returned
    /\ or_attempts = 3 /\ or_reviews = 3
    /\ or_backups = 1

\* C33: orchestrate returns success, and reaches the commit step, only
\* after an orchestration output held ORCHESTRATION_DONE, then a review
\* output held REVIEW_PASSED, and the tasks.json then found is a JSON
\* array whose entries all have id and description with distinct ids.
C33_SuccessNeedsAllThree ==
    /\ or_reviews > 0 => or_done
    /\ or_pc \in {"validating", "committing"} => or_passed
    /\ (or_committed \/ or_result.success \/ or_pc = "committing") =>
          /\ or_done /\ or_passed
          /\ or_file.form = "array"
          /\ \A i \in DOMAIN or_file.entries :
                or_file.entries[i].has_id /\ or_file.entries[i].has_description
          /\ \A i, j \in DOMAIN or_file.entries :
                i # j => or_file.entries[i].id # or_file.entries[j].id
    /\ or_committed => or_result.success

\* C33 witness: success after a retried orchestration and a retried review.
C33_Witness ==
    /\ or_result.success /\ or_committed
    /\ or_attempts = 2 /\ or_reviews = 2
    /\ Len(or_file.entries) = 2
\* C34: a worker is started only when no task of the engine's list is
\* failed, and a loop iteration that finds a failed task either goes into
\* the orchestrator, to come back to the check, or ends the run.
C34_NoStartWithFailedTask ==
    [][/\ (worker' = "alive" /\ worker # "alive") =>
             \A t \in DOMAIN mem : mem[t].status # FAILED
       /\ (pc = "loop" /\ pc' # "loop"
             /\ \E t \in DOMAIN mem : mem[t].status = FAILED) =>
             /\ pc' \in {"orch_loop", "idle"}
             /\ worker' = worker
             /\ starts' = starts]_vars

\* C34 witness: a worker runs on a task that had failed and that the
\* orchestrator put back.
C34_Witness ==
    /\ worker = "alive"
    /\ starts = 2
    /\ \E t \in DOMAIN mem :
          mem[t].status = IN_PROGRESS /\ mem[t].error_message # "none"
\* C35: a graceful terminate sends SIGKILL only after SIGINT and only to
\* a process that is still alive when the wait is over, and a terminate
\* called on a process that has exited sends no signal.
C35_KillOnlyIfStillAlive ==
    [][/\ (tm_graceful /\ tm_signals' # tm_signals
              /\ tm_signals'[Len(tm_signals')] = "SIGKILL") =>
             /\ tm_signals = <<"SIGINT">>
             /\ tm_worker = "alive"
       /\ tm_entry = "exited" => tm_signals' = <<>>]_vars
\* C36: a reader of agent output decodes every well-formed event line,
\* whatever unusable lines come before it.
C36_UnusableLineDroppedAlone ==
    rd_pc \in {"run_claude", "read_log"} =>
        \A i \in DOMAIN rd_lines :
            rd_lines[i] = "event" =>
                \E k \in DOMAIN rd_result.events : rd_result.events[k] = i
\* C39: the engine marks a task completed only when the log of its worker
\* holds a Result event that is no error.
C39_CompletedNeedsResult ==
    [][(/\ pc = "validate"
        /\ task \in DOMAIN mem /\ task \in DOMAIN mem'
        /\ mem[task].status # COMPLETED
        /\ mem'[task].status = COMPLETED) =>
            worker_log.result = "ok"]_vars
\* The lines of a log, an unterminated last line included.
RECURSIVE LinesOf(_, _, _)
LinesOf(log, i, line) ==
    IF i > Len(log) THEN IF line = <<>> THEN <<>> ELSE <<line>>
    ELSE IF log[i] = "nl" THEN <<line>> \o LinesOf(log, i + 1, <<>>)
    ELSE LinesOf(log, i + 1, Append(line, log[i]))

\* A log of complete event lines only.
EventLinesOnly(log) ==
    LET ls == LinesOf(log, 1, <<>>)
    IN /\ log # <<>> /\ log[Len(log)] = "nl"
       /\ \A k \in DOMAIN ls : ls[k] \in {<<"event">>, <<"head", "tail">>}

\* C40: once read_new_events has read up to the end of a log of event
\* lines, written whole or in parts, its calls have returned each complete
\* event line exactly once.
C40_EachEventShownOnce ==
    (/\ log_file # NoFile
     /\ EventLinesOnly(log_file)
     /\ log_reads >= 1) =>
        log_shown = Len(LinesOf(log_file, 1, <<>>))
\* C38: a run in which every worker exits and every agent returns stops,
\* also when validations keep failing or the Supervisor keeps deciding
\* orchestrate while the orchestrator leaves the task list as it is.
C38_RunStops == <>(rs_pc = "stopped")
\* ----------------------------------------------------------- specification
Next ==
    \/ StartRun
    \/ LoopGiveUp
    \/ LoopOrchestrate
    \/ LoopAllDone
    \/ SnapshotTask
    \/ StartTask
    \/ WorkerExit
    \/ SupervisorFinish
    \/ SvTop
    \/ DrainContinue
    \/ DrainDecision
    \/ SvSleep
    \/ StartSupervisor
    \/ FinalizeError
    \/ FinalizeValidate
    \/ ValidatePassed
    \/ ValidateFailed
    \/ OrchestratorAgentEdit
    \/ OrchestrateFails
    \/ OrchestrateSucceeds
    \/ AfterLoopOrchestrate
    \/ AfterDecisionOrchestrate
    \/ AfterFinalizeOrchestrate
    \/ KeyboardInterrupt

Spec == Init /\ [][Next]_vars

\* One supervisor check, from the end of the agent call to the dispatch of
\* its result.
AnalysisInit == InitEngine /\ InitAnalysis /\ NoShutdownCall /\ NoLogFile /\ NoStore /\ NoValidation /\ NoLoop /\ NoCall /\ NoTerminate /\ NoReader /\ NoRun

AnalysisNext ==
    \/ Analyze
    \/ Dispatch

AnalysisSpec == AnalysisInit /\ [][AnalysisNext]_vars

\* One call of graceful_shutdown from the interrupt handler, to the end of
\* the engine process.
ShutdownInit == InitEngine /\ NoAnalysis /\ InitShutdown /\ NoLogFile /\ NoStore /\ NoValidation /\ NoLoop /\ NoCall /\ NoTerminate /\ NoReader /\ NoRun

ShutdownNext ==
    \/ GsWorkerExits
    \/ GsSigint
    \/ GsTick
    \/ GsKill
    \/ GsNoSession
    \/ GsSpawn
    \/ GsCleanupExits
    \/ GsParse
    \/ GsSecondInterrupt
    \/ GsHandlerReturns
    \/ GsCallAgain

ShutdownSpec == ShutdownInit /\ [][ShutdownNext]_vars

LogInit == InitEngine /\ NoAnalysis /\ NoShutdownCall /\ InitLog /\ NoStore /\ NoValidation /\ NoLoop /\ NoCall /\ NoTerminate /\ NoReader /\ NoRun
LogNext ==
    \/ LogStart
    \/ LogWrite
    \/ ReadNewEvents
LogSpec == LogInit /\ [][LogNext]_vars

StoreInit == InitEngine /\ NoAnalysis /\ NoShutdownCall /\ NoLogFile /\ InitStore /\ NoValidation /\ NoLoop /\ NoCall /\ NoTerminate /\ NoReader /\ NoRun
StoreNext ==
    \/ SaveTasks
    \/ EditTasksFile
    \/ LoadTasks
StoreSpec == StoreInit /\ [][StoreNext]_vars

NextTaskInit ==
    InitEngine /\ NoAnalysis /\ NoShutdownCall /\ NoLogFile /\ InitNextTask
        /\ NoValidation /\ NoLoop /\ NoCall /\ NoTerminate /\ NoReader /\ NoRun
NextTaskNext ==
    \/ GetNextTask
    \/ NextCompleted
NextTaskSpec == NextTaskInit /\ [][NextTaskNext]_vars

ValidationInit ==
    InitEngine /\ NoAnalysis /\ NoShutdownCall /\ NoLogFile /\ NoStore
        /\ InitValidation /\ NoLoop /\ NoCall /\ NoTerminate /\ NoReader /\ NoRun
ValidationNext ==
    \/ VsSnapshot
    \/ VsStartWorker
    \/ VsMarkInProgress
    \/ VsWorkerEdits
    \/ VsWorkerExits
    \/ VsChangedFiles
    \/ VsChecks
    \/ VsAgent
    \/ VsCommit
    \/ VsFinalize
ValidationSpec == ValidationInit /\ [][ValidationNext]_vars

LoopInit ==
    InitEngine /\ NoAnalysis /\ NoShutdownCall /\ NoLogFile /\ NoStore
        /\ NoValidation /\ InitLoop /\ NoCall /\ NoTerminate /\ NoReader /\ NoRun
LoopNext ==
    \/ SlSnapshot
    \/ SlStartWorker
    \/ SlWorkerExits
    \/ SlTop
    \/ SlDrainContinue
    \/ SlDrainDecision
    \/ SlDrainEmpty
    \/ SlGateClosed
    \/ SlStartCheck
    \/ SlThreadPuts
    \/ SlFinalize
LoopSpec == LoopInit /\ [][LoopNext]_vars

\* One call of Orchestrator.orchestrate on any tasks.json.
CallInit ==
    InitEngine /\ NoAnalysis /\ NoShutdownCall /\ NoLogFile /\ NoStore
        /\ NoValidation /\ NoLoop /\ InitCall /\ NoTerminate /\ NoReader /\ NoRun

CallNext == OrBackup \/ OrAttempt \/ OrReview \/ OrValidate \/ OrCommit

CallSpec == CallInit /\ [][CallNext]_vars

\* One call of WorkerProcess.terminate.
TerminateInit ==
    InitEngine /\ NoAnalysis /\ NoShutdownCall /\ NoLogFile /\ NoStore
        /\ NoValidation /\ NoLoop /\ NoCall /\ InitTerminate /\ NoReader /\ NoRun

TerminateNext == TmWorkerExits \/ TmCheck \/ TmSignal \/ TmTick \/ TmKill

TerminateSpec == TerminateInit /\ [][TerminateNext]_vars

\* The readers of agent output on any short output.
ReaderInit ==
    InitEngine /\ NoAnalysis /\ NoShutdownCall /\ NoLogFile /\ NoStore
        /\ NoValidation /\ NoLoop /\ NoCall /\ NoTerminate /\ InitReader /\ NoRun

ReaderNext == RdRunClaude \/ RdReadLog

ReaderSpec == ReaderInit /\ [][ReaderNext]_vars

\* A run with an orchestrator that changes nothing.  Every worker exits
\* and every agent invocation returns: the run loop, which is sequential,
\* always takes its next step.
RestartInit ==
    InitEngine /\ NoAnalysis /\ NoShutdownCall /\ NoLogFile /\ NoStore
        /\ NoValidation /\ NoLoop /\ NoCall /\ NoTerminate /\ NoReader
        /\ InitRun

RestartNext ==
    \/ RsLimit \/ RsGiveUp \/ RsRetry \/ RsAllDone \/ RsStart
    \/ RsWorkerExits \/ RsDecision \/ RsFinalize

RestartSpec == RestartInit /\ [][RestartNext]_vars /\ WF_vars(RestartNext)

====
